---- MODULE Spec2Model ----
(***************************************************************************)
(* Godot-Minds backend: the command bridge of routers/editor.py, the       *)
(* repository-status debouncer of services/git_watcher_service.py, the     *)
(* filesystem watcher of services/watcher_service.py, the connection hub   *)
(* and endpoint of routers/websocket.py, the status cache of               *)
(* services/session_manager.py and the two watcher services.               *)
(*                                                                         *)
(* Each component has its own specification; a specification leaves the    *)
(* variables of the other components unchanged.                            *)
(*   Spec, FairSpec           : command bridge (editor.py)                 *)
(*   GitSpec                  : GitChangeHandler debouncing                *)
(*   FwSpec                   : CodeFileHandler debouncing                 *)
(*   HubSpec                  : ConnectionManager, broadcasts              *)
(*   ReaperSpec               : ConnectionManager, cleanup loop            *)
(*   SessSpec, SessCapSpec    : SessionManager, below and at the cap       *)
(*   SvcSpec                  : GitWatcherService, FileWatcherService      *)
(*   HandoffSpec              : observer threads handing off to the loop   *)
(*   FlowSpec                 : command bridge with websocket_endpoint     *)
(*   CancelSpec               : command bridge with task cancellation      *)
(*   LcSpec                   : FileWatcherService and its threads         *)
(***************************************************************************)
EXTENDS Integers, Sequences, FiniteSets, TLC

(***************************************************************************)
(* Command bridge, routers/editor.py                                       *)
(***************************************************************************)

\* Number of send_to_godot invocations (request-handler tasks) in a run.
MaxCalls == 3

\* Number of send_to_godot invocations in a run checked for liveness.
MaxFairCalls == 2

\* editor.py:18
MAX_REQUEST_COUNTER == 1000000

Calls == 1..MaxCalls

\* _godot_connection is None or the host WebSocket.
None == "None"
Ws == "ws"

\* Values a host response may carry.
Results == {"r1", "r2"}
NoResult == "no_result"

\* f"req_{_request_counter}"
ReqId(n) == <<"req_", n>>
NoId == <<"req_", -1>>

\* request ids a host message may carry: minted ones and never-minted ones
ResponseIds == {ReqId(n) : n \in 0..(MaxCalls + 1)}

VARIABLES
    godot_connection,   \* editor.py:15
    pending_requests,   \* editor.py:16, request id -> the call whose future it holds
    request_counter,    \* editor.py:17
    pc,                 \* per call: "idle", "sending" (l.56), "waiting" (l.66), "done"
    request_id,         \* per call: the local request_id (l.47)
    future_state,       \* per call: its asyncio.Future: "none", "pending", "result", "cancelled"
    future_result,      \* per call: the value given to future.set_result
    timed_out,          \* per call: wait_for's timeout elapsed (it cancelled the future)
    outcome,            \* per call: how send_to_godot ended
    retval              \* per call: the value send_to_godot returned

bridgeVars == <<godot_connection, pending_requests, request_counter, pc, request_id,
                future_state, future_result, timed_out, outcome, retval>>

VARIABLES
    git_now,            \* the clock (time.time()), in ticks of 100 ms
    last_change_time,   \* git_watcher_service.py:37
    pending_broadcast,  \* git_watcher_service.py:38
    git_stopped,        \* git_watcher_service.py:40, _stopped
    broadcast_task,     \* git_watcher_service.py:47, the state of _broadcast_task
    git_wake,           \* when the asyncio.sleep of the task ends
    git_unsettled,      \* history: a relevant event arrived after the last status fetch
    git_bad_settle,     \* history: a settle fired early or without an event
    status_cache_time,  \* git_service.py:43-44, _status_cache_time of the handler's GitService; NoStatus while _status_cache is None
    sent_status_time,   \* history: when the status of the last git_status_update was computed
    settled_change_time \* history: last_change_time as the last settle found it

\* The status cache of the handler's GitService and the status last sent.
statusVars == <<status_cache_time, sent_status_time>>

gitVars == <<git_now, last_change_time, pending_broadcast, git_stopped,
             broadcast_task, git_wake, git_unsettled, git_bad_settle, statusVars,
             settled_change_time>>

VARIABLES
    fw_now,             \* the clock (time.time()), in ticks of 100 ms
    pending_changes,    \* watcher_service.py:40, the OrderedDict as a sequence of <<path, timestamp>>
    change_event,       \* watcher_service.py:43, the threading.Event is set
    fw_running,         \* watcher_service.py:50, running
    proc_pc,            \* the processor thread: "top", "waiting", "sleeping", "reindexing", "exited"
    proc_wake,          \* when its wait or sleep ends
    files_to_process,   \* watcher_service.py:153, with the timestamp each entry had
    fw_update_order,    \* history: the pending paths, least recently updated first
    fw_last_settle,     \* history: the path and timestamp of the last entry reindexed
    fw_split_burst,     \* history: two paths whose events were less than Q apart were reindexed separately
    fw_refreshed,       \* history: the pending paths whose timestamp was refreshed while pending
    fw_evicted          \* history: the path evicted last, "" if none

fwVars == <<fw_now, pending_changes, change_event, fw_running, proc_pc, proc_wake,
            files_to_process, fw_update_order, fw_last_settle, fw_split_burst,
            fw_refreshed, fw_evicted>>

VARIABLES
    hub_now,                \* the clock (time.time()), in ticks of HubTickSeconds
    active_connections,     \* websocket.py:32
    connection_last_seen,   \* websocket.py:33, connection -> time
    conn_pc,                \* per connection, websocket_endpoint: "new", "open", "closing" (closed by the peer, not yet noticed), "ended"
    cleanup_task,           \* websocket.py:34: the task the field refers to, or NoTask
    task_state,             \* per task running _cleanup_loop: "unborn", "sleeping", "cancelling", "done"
    task_wake,              \* per task, when its asyncio.sleep(30) ends
    task_cycled,            \* history: the tasks that have completed a turn of the loop
    hub_shutdown,           \* websocket.py:36, _shutdown
    stop_awaits,            \* the task stop_cleanup_task awaits at l.50, or NoTask
    bc_result,              \* the broadcast call: "none", "running", "returned"
    bc_targets,             \* websocket.py:111, self.active_connections.copy()
    bc_status,              \* per connection, its send_message: "none", "queued", "sent", "failed"
    reaped                  \* history: the connections the cleanup loop removed

hubConnVars == <<active_connections, connection_last_seen, conn_pc>>

hubTaskVars == <<cleanup_task, task_state, task_wake, task_cycled, hub_shutdown, stop_awaits>>

hubBcVars == <<bc_result, bc_targets, bc_status>>

hubVars == <<hub_now, hubConnVars, hubTaskVars, hubBcVars, reaped>>

VARIABLES
    sess_now,               \* the clock (time.time()), in ticks of SessTickSeconds
    sessions,               \* session_manager.py:22, _sessions
    sess_calls,             \* history: the number of calls made
    sess_op,                \* history: the last call, its client and its snapshot
    get_result,             \* what the last get_cached_status returned
    sess_purged,            \* history: the clients the last call removed as expired
    sess_evicted            \* history: the clients the last update_cache evicted

sessVars == <<sess_now, sessions, sess_calls, sess_op, get_result, sess_purged, sess_evicted>>

VARIABLES
    svc,                    \* per watcher service: watching, watched_path, observer, handler, the handler's processor thread, and the thread of each Observer it created
    svc_calls,              \* history: the number of start_watching and stop_watching calls made
    svc_op,                 \* history: the last call: watcher, kind, path
    svc_raised,             \* whether the last call raised
    svc_joins               \* history: the join calls the last call made

svcVars == <<svc, svc_calls, svc_op, svc_raised, svc_joins>>

VARIABLES
    ho_loop,                \* the event loop the handlers were given: "running", "stopped", "closed"
    ho_established,         \* per handler: _loop and broadcast_callback are set
    ho_lock,                \* per handler: who holds self.lock
    ho_pc,                  \* per thread: where it is
    ho_flag,                \* GitChangeHandler.pending_broadcast
    ho_task,                \* GitChangeHandler._broadcast_task: "none", "pending", "done"
    ho_fw_pending,          \* CodeFileHandler.pending_changes is not empty
    ho_result               \* history, per handler: what became of the last change: "scheduled", "dropped", "raised"

hoVars == <<ho_loop, ho_established, ho_lock, ho_pc, ho_flag, ho_task, ho_fw_pending, ho_result>>

VARIABLES
    ep_last,                \* history: the last message websocket_endpoint handled: connection, type, request_id
    ep_reply                \* what websocket_endpoint did with it

epVars == <<ep_last, ep_reply>>

VARIABLES
    lc_watching,            \* FileWatcherService.watching
    lc_observer,            \* the thread of FileWatcherService.observer: "unstarted", "running", "stopping", "dead"
    lc_orphans,             \* threads of replaced Observers that are still alive
    lc_running,             \* CodeFileHandler.running
    lc_processor,           \* the processor thread: "waiting", "sleeping", "reindexing", "exited"
    lc_pending,             \* CodeFileHandler.pending_changes is not empty
    lc_callback,            \* CodeFileHandler.broadcast_callback is set
    lc_loop,                \* CodeFileHandler._loop is set
    lc_queued,              \* broadcast coroutines handed to the event loop and not run yet
    lc_calls,               \* history: the number of start_watching and stop_watching calls made
    lc_events,              \* history: the number of relevant events recorded
    lc_reindexed,           \* history: the number of files reindexed
    lc_delivered,           \* history: the number of broadcasts the callback made
    lc_op                   \* history: the last start or stop call and how it ended

lcVars == <<lc_watching, lc_observer, lc_orphans, lc_running, lc_processor, lc_pending,
            lc_callback, lc_loop, lc_queued, lc_calls, lc_events, lc_reindexed, lc_delivered,
            lc_op>>

vars == <<bridgeVars, gitVars, fwVars, hubVars, sessVars, svcVars, hoVars, epVars, lcVars>>

\* What the bridge leaves alone.
nonBridgeVars == <<gitVars, fwVars, hubVars, sessVars, svcVars, hoVars, epVars, lcVars>>

\* What the repository-status debouncer leaves alone.
nonGitVars == <<bridgeVars, fwVars, hubVars, sessVars, svcVars, hoVars, epVars, lcVars>>

\* What the filesystem watcher leaves alone.
nonFwVars == <<bridgeVars, gitVars, hubVars, sessVars, svcVars, hoVars, epVars, lcVars>>

\* What the connection hub leaves alone.
nonHubVars == <<bridgeVars, gitVars, fwVars, sessVars, svcVars, hoVars, epVars, lcVars>>

\* What the session cache leaves alone.
nonSessVars == <<bridgeVars, gitVars, fwVars, hubVars, svcVars, hoVars, epVars, lcVars>>

\* What the watcher services leave alone.
nonSvcVars == <<bridgeVars, gitVars, fwVars, hubVars, sessVars, hoVars, epVars, lcVars>>

\* What websocket_endpoint leaves alone, the hub apart.
nonEpVars == <<bridgeVars, gitVars, fwVars, sessVars, svcVars, hoVars, lcVars>>

\* What the life cycle of the filesystem watcher leaves alone.
nonLcVars == <<bridgeVars, gitVars, fwVars, hubVars, sessVars, svcVars, hoVars, epVars>>

\* What the hand-off leaves alone.
nonHoVars == <<bridgeVars, gitVars, fwVars, hubVars, sessVars, svcVars, epVars, lcVars>>

EmptyDict == [k \in {} |-> 0]

\* dict[k] = v
DictSet(d, k, v) == [x \in (DOMAIN d) \cup {k} |-> IF x = k THEN v ELSE d[x]]

\* dict.pop(k, None)
DictPop(d, k) == [x \in (DOMAIN d) \ {k} |-> d[x]]

BridgeInit ==
    /\ godot_connection = None
    /\ pending_requests = EmptyDict
    /\ request_counter = 0
    /\ pc = [i \in Calls |-> "idle"]
    /\ request_id = [i \in Calls |-> NoId]
    /\ future_state = [i \in Calls |-> "none"]
    /\ future_result = [i \in Calls |-> NoResult]
    /\ timed_out = [i \in Calls |-> FALSE]
    /\ outcome = [i \in Calls |-> "none"]
    /\ retval = [i \in Calls |-> NoResult]


\* set_godot_connection(ws)
SetGodotConnection ==
    /\ UNCHANGED nonBridgeVars
    /\ godot_connection' = Ws
    /\ UNCHANGED <<pending_requests, request_counter, pc, request_id,
                   future_state, future_result, timed_out, outcome, retval>>

\* Variant of ClearGodotConnection that drops the entries without cancelling.
ClearGodotConnection_NoCancel ==
    /\ UNCHANGED nonBridgeVars
    /\ godot_connection' = None
    /\ pending_requests' = EmptyDict
    /\ UNCHANGED <<request_counter, pc, request_id, future_state, future_result,
                   timed_out, outcome, retval>>

\* Variant of ClearGodotConnection that cancels but keeps the entries.
ClearGodotConnection_NoClear ==
    /\ UNCHANGED nonBridgeVars
    /\ godot_connection' = None
    /\ future_state' =
         [i \in Calls |->
            IF /\ \E k \in DOMAIN pending_requests : pending_requests[k] = i
               /\ future_state[i] = "pending"
            THEN "cancelled" ELSE future_state[i]]
    /\ UNCHANGED <<pending_requests, request_counter, pc, request_id, future_result,
                   timed_out, outcome, retval>>

\* Variant of ClearGodotConnection without the `if not future.done()` test.
ClearGodotConnection_CancelDone ==
    /\ UNCHANGED nonBridgeVars
    /\ godot_connection' = None
    /\ future_state' =
         [i \in Calls |->
            IF \E k \in DOMAIN pending_requests : pending_requests[k] = i
            THEN "cancelled" ELSE future_state[i]]
    /\ pending_requests' = EmptyDict
    /\ UNCHANGED <<request_counter, pc, request_id, future_result, timed_out,
                   outcome, retval>>

\* clear_godot_connection(): every future held in the dict that is not done is
\* cancelled, then the dict is cleared.
ClearGodotConnection ==
    /\ UNCHANGED nonBridgeVars
    /\ godot_connection' = None
    /\ future_state' =
         [i \in Calls |->
            IF /\ \E k \in DOMAIN pending_requests : pending_requests[k] = i
               /\ future_state[i] = "pending"
            THEN "cancelled" ELSE future_state[i]]
    /\ pending_requests' = EmptyDict
    /\ UNCHANGED <<request_counter, pc, request_id, future_result, timed_out,
                   outcome, retval>>

\* Variant of Finish without the finally clause.
Finish_NoPop(i, o, v) ==
    /\ pc' = [pc EXCEPT ![i] = "done"]
    /\ outcome' = [outcome EXCEPT ![i] = o]
    /\ retval' = [retval EXCEPT ![i] = v]
    /\ pending_requests' = pending_requests

\* The end of send_to_godot for call i with outcome o and value v; the finally
\* clause pops the call's request id.
Finish(i, o, v) ==
    /\ pc' = [pc EXCEPT ![i] = "done"]
    /\ outcome' = [outcome EXCEPT ![i] = o]
    /\ retval' = [retval EXCEPT ![i] = v]
    /\ pending_requests' = DictPop(pending_requests, request_id[i])

\* Variant of WaitForOutcome in which the TimeoutError is not told apart from
\* the CancelledError.
WaitForOutcome_NoTimeout(i) ==
    IF future_state[i] = "result" THEN "result" ELSE "disconnected"

\* What `await asyncio.wait_for(future, timeout)` delivers once the future is done.
WaitForOutcome(i) ==
    IF timed_out[i] THEN "timeout"
    ELSE IF future_state[i] = "result" THEN "result"
    ELSE "disconnected"

\* Variant of SendToGodot without the `if not _godot_connection` test.
SendToGodot_NoCheck(i) ==
    /\ UNCHANGED nonBridgeVars
    /\ pc[i] = "idle"
    /\ \A j \in Calls : j < i => pc[j] # "idle"
    /\ request_counter' = (request_counter + 1) % MAX_REQUEST_COUNTER
    /\ request_id' = [request_id EXCEPT ![i] = ReqId(request_counter')]
    /\ future_state' = [future_state EXCEPT ![i] = "pending"]
    /\ pending_requests' = DictSet(pending_requests, ReqId(request_counter'), i)
    /\ pc' = [pc EXCEPT ![i] = "sending"]
    /\ UNCHANGED <<godot_connection, future_result, timed_out, outcome, retval>>

\* send_to_godot, from the call to its first await (l.38-56). Calls are numbered
\* in the order in which they are made.
SendToGodot(i) ==
    /\ UNCHANGED nonBridgeVars
    /\ pc[i] = "idle"
    /\ \A j \in Calls : j < i => pc[j] # "idle"
    /\ IF godot_connection = None
       THEN /\ pc' = [pc EXCEPT ![i] = "done"]
            /\ outcome' = [outcome EXCEPT ![i] = "not_connected"]
            /\ UNCHANGED <<godot_connection, pending_requests, request_counter,
                           request_id, future_state, future_result, timed_out, retval>>
       ELSE /\ request_counter' = (request_counter + 1) % MAX_REQUEST_COUNTER
            /\ request_id' = [request_id EXCEPT ![i] = ReqId(request_counter')]
            /\ future_state' = [future_state EXCEPT ![i] = "pending"]
            /\ pending_requests' = DictSet(pending_requests, ReqId(request_counter'), i)
            /\ pc' = [pc EXCEPT ![i] = "sending"]
            /\ UNCHANGED <<godot_connection, future_result, timed_out, outcome, retval>>

\* send_json returned; wait_for starts. A future that is already done makes
\* wait_for return or raise without suspending.
SendJsonReturns(i) ==
    /\ UNCHANGED nonBridgeVars
    /\ pc[i] = "sending"
    /\ IF future_state[i] = "pending"
       THEN /\ pc' = [pc EXCEPT ![i] = "waiting"]
            /\ UNCHANGED <<pending_requests, outcome, retval>>
       ELSE Finish(i, WaitForOutcome(i),
                   IF future_state[i] = "result" THEN future_result[i] ELSE NoResult)
    /\ UNCHANGED <<godot_connection, request_counter, request_id, future_state,
                   future_result, timed_out>>

\* send_json raised: neither except clause matches, the exception propagates
\* through the finally clause.
SendJsonFails(i) ==
    /\ UNCHANGED nonBridgeVars
    /\ pc[i] = "sending"
    /\ Finish(i, "send_failed", NoResult)
    /\ UNCHANGED <<godot_connection, request_counter, request_id, future_state,
                   future_result, timed_out>>

\* Variant of HandleGodotResponse without the `not future.done()` test.
HandleGodotResponse_NoDoneCheck(id, result) ==
    /\ UNCHANGED nonBridgeVars
    /\ IF id \in DOMAIN pending_requests
       THEN /\ future_state' = [future_state EXCEPT ![pending_requests[id]] = "result"]
            /\ future_result' = [future_result EXCEPT ![pending_requests[id]] = result]
       ELSE UNCHANGED <<future_state, future_result>>
    /\ UNCHANGED <<godot_connection, pending_requests, request_counter, pc,
                   request_id, timed_out, outcome, retval>>

\* handle_godot_response(request_id, result)
HandleGodotResponse(id, result) ==
    /\ UNCHANGED nonBridgeVars
    /\ IF /\ id \in DOMAIN pending_requests
          /\ future_state[pending_requests[id]] = "pending"
       THEN /\ future_state' = [future_state EXCEPT ![pending_requests[id]] = "result"]
            /\ future_result' = [future_result EXCEPT ![pending_requests[id]] = result]
       ELSE UNCHANGED <<future_state, future_result>>
    /\ UNCHANGED <<godot_connection, pending_requests, request_counter, pc,
                   request_id, timed_out, outcome, retval>>

\* The timeout of wait_for elapses while the future is not done: wait_for
\* cancels the future and will raise TimeoutError.
TimeoutExpires(i) ==
    /\ UNCHANGED nonBridgeVars
    /\ pc[i] = "waiting"
    /\ future_state[i] = "pending"
    /\ future_state' = [future_state EXCEPT ![i] = "cancelled"]
    /\ timed_out' = [timed_out EXCEPT ![i] = TRUE]
    /\ UNCHANGED <<godot_connection, pending_requests, request_counter, pc,
                   request_id, future_result, outcome, retval>>

\* The task resumes from wait_for (l.66-76).
WaitForReturns(i) ==
    /\ UNCHANGED nonBridgeVars
    /\ pc[i] = "waiting"
    /\ future_state[i] # "pending"
    /\ Finish(i, WaitForOutcome(i),
              IF WaitForOutcome(i) = "result" THEN future_result[i] ELSE NoResult)
    /\ UNCHANGED <<godot_connection, request_counter, request_id, future_state,
                   future_result, timed_out>>

\* The task that runs send_to_godot is cancelled while it is suspended in
\* send_json or in wait_for (which then cancels the future): CancelledError
\* is raised at the await, inside the try block, and the clause of l.70-73
\* turns it into the HTTPException 503 of a host disconnect.
TaskCancelled(i) ==
    /\ UNCHANGED nonBridgeVars
    /\ pc[i] \in {"sending", "waiting"}
    /\ future_state[i] = "pending"
    /\ future_state' = [future_state EXCEPT
                          ![i] = IF pc[i] = "waiting" THEN "cancelled" ELSE @]
    /\ Finish(i, "disconnected", NoResult)
    /\ UNCHANGED <<godot_connection, request_counter, request_id, future_result, timed_out>>

BridgeNext ==
    \/ SetGodotConnection
    \/ ClearGodotConnection
    \/ \E i \in Calls : SendToGodot(i)
    \/ \E i \in Calls : SendJsonReturns(i)
    \/ \E i \in Calls : SendJsonFails(i)
    \/ \E id \in ResponseIds, r \in Results : HandleGodotResponse(id, r)
    \/ \E i \in Calls : TimeoutExpires(i)
    \/ \E i \in Calls : WaitForReturns(i)



(***************************************************************************)
(* Repository-status debouncer, services/git_watcher_service.py            *)
(* GitChangeHandler after start_watching has set the loop and the          *)
(* broadcast callback (l.219-222). Time is counted in ticks of 100 ms.     *)
(***************************************************************************)

\* How long the clock runs.
MaxTime == 12

\* debounce_seconds = 0.5 (git_watcher_service.py:23), in ticks
DebounceTicks == 5

\* _cache_ttl = 2.0 (git_service.py:45), in ticks
CacheTtlTicks == 20

\* _status_cache is None (git_service.py:43).
NoStatus == 0 - 1

GitInit ==
    /\ git_now = 0
    /\ last_change_time = 0
    /\ pending_broadcast = FALSE
    /\ git_stopped = FALSE
    /\ broadcast_task = "none"
    /\ git_wake = 0
    /\ git_unsettled = FALSE
    /\ git_bad_settle = FALSE
    /\ status_cache_time = NoStatus
    /\ sent_status_time = NoStatus
    /\ settled_change_time = 0

\* _broadcast_task is None or _broadcast_task.done()
TaskNoneOrDone == broadcast_task \in {"none", "done", "cancelled"}

\* on_any_event, on the observer thread. relevant: the event is for a file and
\* _is_git_relevant(file_path) holds.
GitOnAnyEvent(relevant) ==
    /\ UNCHANGED nonGitVars
    /\ IF ~relevant \/ git_stopped
       THEN UNCHANGED gitVars
       ELSE /\ last_change_time' = git_now
            /\ pending_broadcast' = TRUE
            /\ git_unsettled' = TRUE
            /\ IF TaskNoneOrDone
               THEN /\ broadcast_task' = "sleeping"
                    /\ git_wake' = git_now + DebounceTicks
               ELSE UNCHANGED <<broadcast_task, git_wake>>
            /\ UNCHANGED <<git_now, git_stopped, git_bad_settle, statusVars, settled_change_time>>

\* _debounced_broadcast from the end of its sleep to the release of the lock
\* (l.126-143).
GitDebouncedWake ==
    /\ broadcast_task = "sleeping"
    /\ git_now >= git_wake
    /\ UNCHANGED nonGitVars
    /\ IF git_stopped \/ ~pending_broadcast
       THEN /\ broadcast_task' = "done"
            /\ UNCHANGED <<pending_broadcast, git_wake, git_bad_settle, settled_change_time>>
       ELSE IF git_now - last_change_time < DebounceTicks
       THEN /\ broadcast_task' = "sleeping"
            /\ git_wake' = git_now + DebounceTicks
            /\ UNCHANGED <<pending_broadcast, git_bad_settle, settled_change_time>>
       ELSE /\ pending_broadcast' = FALSE
            /\ broadcast_task' = "fetching"
            /\ git_bad_settle' = (git_bad_settle \/ ~git_unsettled)
            /\ settled_change_time' = last_change_time
            /\ UNCHANGED git_wake
    /\ UNCHANGED <<git_now, last_change_time, git_stopped, git_unsettled, statusVars>>

\* GitService.get_status l.54-56: the cached status is returned while it is
\* younger than the TTL.
CacheHit == status_cache_time # NoStatus /\ git_now - status_cache_time < CacheTtlTicks

\* GitService.get_status (git_service.py l.47-62): when the status it returns
\* was computed.
StatusTime == IF CacheHit THEN status_cache_time ELSE git_now

\* _broadcast_git_status up to its await (l.150-174): the status is fetched
\* unless the handler was stopped; ok: get_status did not raise.
GitFetchStatus(ok) ==
    /\ broadcast_task = "fetching"
    /\ UNCHANGED nonGitVars
    /\ IF git_stopped
       THEN /\ broadcast_task' = "done"
            /\ UNCHANGED <<git_unsettled, statusVars>>
       ELSE /\ broadcast_task' = IF ok THEN "delivering" ELSE "done"
            /\ git_unsettled' = FALSE
            /\ IF ok
               THEN /\ status_cache_time' = StatusTime
                    /\ sent_status_time' = StatusTime
               ELSE UNCHANGED statusVars
    /\ UNCHANGED <<git_now, last_change_time, pending_broadcast, git_stopped,
                   git_wake, git_bad_settle, settled_change_time>>

\* broadcast_callback(message) returned or raised (l.174-178).
GitDeliverDone ==
    /\ broadcast_task = "delivering"
    /\ UNCHANGED nonGitVars
    /\ broadcast_task' = "done"
    /\ UNCHANGED <<git_now, last_change_time, pending_broadcast, git_stopped,
                   git_wake, git_unsettled, git_bad_settle, statusVars, settled_change_time>>

\* cancel() that sets the flags but leaves the scheduled task alone.
GitCancel_NoCancelTask ==
    /\ broadcast_task # "fetching"
    /\ UNCHANGED nonGitVars
    /\ git_stopped' = TRUE
    /\ pending_broadcast' = FALSE
    /\ UNCHANGED <<git_now, last_change_time, broadcast_task, git_wake, git_unsettled,
                   git_bad_settle, statusVars, settled_change_time>>

\* cancel(), called by stop_watching on the event loop, hence while the task is
\* suspended or absent.
GitCancel ==
    /\ broadcast_task # "fetching"
    /\ UNCHANGED nonGitVars
    /\ git_stopped' = TRUE
    /\ pending_broadcast' = FALSE
    /\ broadcast_task' = IF broadcast_task \in {"sleeping", "delivering"}
                         THEN "cancelled" ELSE broadcast_task
    /\ UNCHANGED <<git_now, last_change_time, git_wake, git_unsettled, git_bad_settle,
                   statusVars, settled_change_time>>

\* 100 ms pass; a sleep that is over ends before more time passes.
GitTick ==
    /\ git_now < MaxTime
    /\ ~(broadcast_task = "sleeping" /\ git_wake <= git_now)
    /\ UNCHANGED nonGitVars
    /\ git_now' = git_now + 1
    /\ UNCHANGED <<last_change_time, pending_broadcast, git_stopped, broadcast_task,
                   git_wake, git_unsettled, git_bad_settle, statusVars, settled_change_time>>

GitNext ==
    \/ \E relevant \in BOOLEAN : GitOnAnyEvent(relevant)
    \/ GitDebouncedWake
    \/ \E ok \in BOOLEAN : GitFetchStatus(ok)
    \/ GitDeliverDone
    \/ GitCancel
    \/ GitTick

(***************************************************************************)
(* Filesystem watcher, services/watcher_service.py                         *)
(* CodeFileHandler: the observer thread records changes, the processor     *)
(* thread started at construction settles them. Ticks of 100 ms.           *)
(***************************************************************************)

\* How long the clock runs.
MaxFwTime == 6

\* The capacity of pending_changes: self.max_pending (watcher_service.py:41,
\* 1000 in the source), scaled down.
MaxPending == 2

\* debounce_seconds = 0.5 (watcher_service.py:27), in ticks
FwDebounceTicks == 5

\* time.sleep(0.1) (watcher_service.py:148-150), in ticks
PollTicks == 1

\* change_event.wait(timeout=1.0) (watcher_service.py:143), in ticks
WaitTimeoutTicks == 10

\* Paths that pass _should_process_file.
FwFiles == {"a.gd", "b.gd", "c.gd"}

NoSettle == <<"", 0 - FwDebounceTicks>>

\* The keys of the OrderedDict.
Keys(p) == {p[i][1] : i \in DOMAIN p}

\* The sequence without the entries of key k.
WithoutKey(p, k) == SelectSeq(p, LAMBDA e : e[1] # k)

FwInit ==
    /\ fw_now = 0
    /\ pending_changes = <<>>
    /\ change_event = FALSE
    /\ fw_running = TRUE
    /\ proc_pc = "top"
    /\ proc_wake = 0
    /\ files_to_process = <<>>
    /\ fw_update_order = <<>>
    /\ fw_last_settle = NoSettle
    /\ fw_split_burst = FALSE
    /\ fw_refreshed = {}
    /\ fw_evicted = ""

\* The history of updates: path f was just updated; kept is the set of paths
\* still pending.
UpdateOrder(f, kept) ==
    SelectSeq(Append(SelectSeq(fw_update_order, LAMBDA k : k # f), f),
              LAMBDA k : k \in kept)

\* _add_pending_change that refreshes the timestamp of a known path in place.
FwAddPendingChange_NoMoveToEnd(f) ==
    /\ UNCHANGED nonFwVars
    /\ IF f \in Keys(pending_changes)
       THEN /\ pending_changes' =
                 [i \in DOMAIN pending_changes |->
                    IF pending_changes[i][1] = f THEN <<f, fw_now>>
                    ELSE pending_changes[i]]
            /\ UNCHANGED change_event
       ELSE /\ pending_changes' =
                 LET p == Append(pending_changes, <<f, fw_now>>)
                 IN  IF Len(p) > MaxPending THEN Tail(p) ELSE p
            /\ change_event' = TRUE
    /\ fw_update_order' = UpdateOrder(f, Keys(pending_changes'))
    /\ fw_refreshed' = (IF f \in Keys(pending_changes)
                        THEN fw_refreshed \cup {f} ELSE fw_refreshed)
                         \cap Keys(pending_changes')
    /\ fw_evicted' = IF Keys(pending_changes) \subseteq Keys(pending_changes')
                     THEN fw_evicted
                     ELSE CHOOSE k \in Keys(pending_changes) : k \notin Keys(pending_changes')
    /\ UNCHANGED <<fw_now, fw_running, proc_pc, proc_wake, files_to_process,
                   fw_last_settle, fw_split_burst>>

\* _add_pending_change that appends without evicting.
FwAddPendingChange_NoEvict(f) ==
    /\ UNCHANGED nonFwVars
    /\ IF f \in Keys(pending_changes)
       THEN /\ pending_changes' = Append(WithoutKey(pending_changes, f), <<f, fw_now>>)
            /\ UNCHANGED change_event
       ELSE /\ pending_changes' = Append(pending_changes, <<f, fw_now>>)
            /\ change_event' = TRUE
    /\ fw_update_order' = UpdateOrder(f, Keys(pending_changes'))
    /\ fw_refreshed' = (IF f \in Keys(pending_changes)
                        THEN fw_refreshed \cup {f} ELSE fw_refreshed)
                         \cap Keys(pending_changes')
    /\ fw_evicted' = IF Keys(pending_changes) \subseteq Keys(pending_changes')
                     THEN fw_evicted
                     ELSE CHOOSE k \in Keys(pending_changes) : k \notin Keys(pending_changes')
    /\ UNCHANGED <<fw_now, fw_running, proc_pc, proc_wake, files_to_process,
                   fw_last_settle, fw_split_burst>>

\* on_modified / on_created for a path that passes _should_process_file:
\* _add_pending_change(f), under the lock (l.115-135).
FwAddPendingChange(f) ==
    /\ UNCHANGED nonFwVars
    /\ IF f \in Keys(pending_changes)
       THEN /\ pending_changes' = Append(WithoutKey(pending_changes, f), <<f, fw_now>>)
            /\ UNCHANGED change_event
       ELSE /\ pending_changes' =
                 LET p == Append(pending_changes, <<f, fw_now>>)
                 IN  IF Len(p) > MaxPending THEN Tail(p) ELSE p
            /\ change_event' = TRUE
    /\ fw_update_order' = UpdateOrder(f, Keys(pending_changes'))
    /\ fw_refreshed' = (IF f \in Keys(pending_changes)
                        THEN fw_refreshed \cup {f} ELSE fw_refreshed)
                         \cap Keys(pending_changes')
    /\ fw_evicted' = IF Keys(pending_changes) \subseteq Keys(pending_changes')
                     THEN fw_evicted
                     ELSE CHOOSE k \in Keys(pending_changes) : k \notin Keys(pending_changes')
    /\ UNCHANGED <<fw_now, fw_running, proc_pc, proc_wake, files_to_process,
                   fw_last_settle, fw_split_burst>>

\* _process_pending_changes at `while self.running` (l.139-150).
FwLoopTop ==
    /\ proc_pc = "top"
    /\ UNCHANGED nonFwVars
    /\ IF ~fw_running
       THEN /\ proc_pc' = "exited"
            /\ UNCHANGED proc_wake
       ELSE IF pending_changes = <<>>
       THEN /\ proc_pc' = "waiting"
            /\ proc_wake' = fw_now + WaitTimeoutTicks
       ELSE /\ proc_pc' = "sleeping"
            /\ proc_wake' = fw_now + PollTicks
    /\ UNCHANGED <<fw_now, pending_changes, change_event, fw_running,
                   files_to_process, fw_update_order, fw_last_settle, fw_split_burst,
                   fw_refreshed, fw_evicted>>

\* The entries that have been pending long enough (l.152-160): current_time
\* is read and the entries are taken out under the lock.
DueChanges == SelectSeq(pending_changes, LAMBDA e : fw_now - e[2] >= FwDebounceTicks)

FwCollect ==
    /\ files_to_process' = DueChanges
    /\ pending_changes' =
         SelectSeq(pending_changes, LAMBDA e : ~(fw_now - e[2] >= FwDebounceTicks))
    /\ fw_update_order' =
         SelectSeq(fw_update_order, LAMBDA k : k \in Keys(pending_changes'))
    /\ fw_refreshed' = fw_refreshed \cap Keys(pending_changes')
    /\ proc_pc' = IF DueChanges = <<>> THEN "top" ELSE "reindexing"

\* change_event.wait(timeout=1.0) returns (l.143-146, l.152-160).
FwWaitReturns ==
    /\ proc_pc = "waiting"
    /\ change_event \/ fw_now >= proc_wake
    /\ UNCHANGED nonFwVars
    /\ IF ~fw_running
       THEN /\ proc_pc' = "exited"
            /\ UNCHANGED <<pending_changes, change_event, files_to_process,
                           fw_update_order, fw_refreshed>>
       ELSE /\ change_event' = FALSE
            /\ FwCollect
    /\ UNCHANGED <<fw_now, fw_running, proc_wake, fw_last_settle, fw_split_burst,
                   fw_evicted>>

\* time.sleep(0.1) returns (l.148-160).
FwSleepReturns ==
    /\ proc_pc = "sleeping"
    /\ fw_now >= proc_wake
    /\ UNCHANGED nonFwVars
    /\ FwCollect
    /\ UNCHANGED <<fw_now, change_event, fw_running, proc_wake, fw_last_settle,
                   fw_split_burst, fw_evicted>>

\* One turn of `for file_path in files_to_process: self._reindex_file(file_path)`
\* (l.163-211). indexed: the file was chunked and added to the index, and the
\* file_indexed broadcast was handed to the loop; otherwise the file is gone,
\* has no chunks, or the reindex raised and was logged.
FwReindexFile(indexed) ==
    /\ proc_pc = "reindexing"
    /\ UNCHANGED nonFwVars
    /\ files_to_process' = Tail(files_to_process)
    /\ proc_pc' = IF Tail(files_to_process) = <<>> THEN "top" ELSE "reindexing"
    /\ fw_last_settle' = Head(files_to_process)
    /\ fw_split_burst' =
         (\/ fw_split_burst
          \/ /\ fw_last_settle[1] # Head(files_to_process)[1]
             /\ Head(files_to_process)[2] - fw_last_settle[2] < FwDebounceTicks
             /\ fw_last_settle[2] - Head(files_to_process)[2] < FwDebounceTicks)
    /\ UNCHANGED <<fw_now, pending_changes, change_event, fw_running, proc_wake,
                   fw_update_order, fw_refreshed, fw_evicted>>

\* CodeFileHandler.stop up to the join (l.213-217).
FwStop ==
    /\ fw_running
    /\ UNCHANGED nonFwVars
    /\ fw_running' = FALSE
    /\ change_event' = TRUE
    /\ UNCHANGED <<fw_now, pending_changes, proc_pc, proc_wake, files_to_process,
                   fw_update_order, fw_last_settle, fw_split_burst, fw_refreshed,
                   fw_evicted>>

\* 100 ms pass; a wait or sleep that is over ends before more time passes, and
\* the loop test takes no time.
FwTick ==
    /\ fw_now < MaxFwTime
    /\ ~(proc_pc \in {"waiting", "sleeping"} /\ proc_wake <= fw_now)
    /\ ~(proc_pc = "waiting" /\ change_event)
    /\ proc_pc # "top"
    /\ UNCHANGED nonFwVars
    /\ fw_now' = fw_now + 1
    /\ UNCHANGED <<pending_changes, change_event, fw_running, proc_pc, proc_wake,
                   files_to_process, fw_update_order, fw_last_settle, fw_split_burst,
                   fw_refreshed, fw_evicted>>

FwNext ==
    \/ \E f \in FwFiles : FwAddPendingChange(f)
    \/ FwLoopTop
    \/ FwWaitReturns
    \/ FwSleepReturns
    \/ \E indexed \in BOOLEAN : FwReindexFile(indexed)
    \/ FwStop
    \/ FwTick

(***************************************************************************)
(* Connection hub, routers/websocket.py                                    *)
(* ConnectionManager and the part of websocket_endpoint that registers,    *)
(* touches and unregisters a connection. All of it runs on the event loop. *)
(***************************************************************************)

\* How long the clock runs, in ticks.
MaxHubTime == 12

\* How many cleanup tasks start_cleanup_task may create in one run.
MaxTasks == 2

\* One tick of the hub clock, in seconds: the cleanup interval.
HubTickSeconds == 30

\* await asyncio.sleep(30) (websocket.py:59)
CleanupIntervalSeconds == 30

\* self._connection_timeout = 300 (websocket.py:35)
ConnectionTimeoutSeconds == 300

\* WebSocket objects; each is accepted at most once.
Conns == {"w1", "w2", "w3"}

\* The asyncio tasks running _cleanup_loop, in the order of their creation.
Tasks == 1..MaxTasks

\* self._cleanup_task is None
NoTask == 0

HubInit ==
    /\ hub_now = 0
    /\ active_connections = {}
    /\ connection_last_seen = EmptyDict
    /\ conn_pc = [c \in Conns |-> "new"]
    /\ cleanup_task = NoTask
    /\ task_state = [t \in Tasks |-> "unborn"]
    /\ task_wake = [t \in Tasks |-> 0]
    /\ task_cycled = {}
    /\ hub_shutdown = FALSE
    /\ stop_awaits = NoTask
    /\ bc_result = "none"
    /\ bc_targets = {}
    /\ bc_status = [c \in Conns |-> "none"]
    /\ reaped = {}

\* connect (l.78-82), once websocket.accept() has returned.
HubConnect(c) ==
    /\ conn_pc[c] = "new"
    /\ UNCHANGED nonHubVars
    /\ conn_pc' = [conn_pc EXCEPT ![c] = "open"]
    /\ active_connections' = active_connections \cup {c}
    /\ connection_last_seen' = DictSet(connection_last_seen, c, hub_now)
    /\ UNCHANGED <<hub_now, hubTaskVars, hubBcVars, reaped>>

\* websocket_endpoint received a message: update_last_seen (l.134-135, l.89-91).
HubTouch(c) ==
    /\ conn_pc[c] = "open"
    /\ UNCHANGED nonHubVars
    /\ connection_last_seen' = DictSet(connection_last_seen, c, hub_now)
    /\ UNCHANGED <<hub_now, active_connections, conn_pc, hubTaskVars, hubBcVars, reaped>>

\* The peer closes the socket; the endpoint has not noticed yet.
HubPeerCloses(c) ==
    /\ conn_pc[c] = "open"
    /\ UNCHANGED nonHubVars
    /\ conn_pc' = [conn_pc EXCEPT ![c] = "closing"]
    /\ UNCHANGED <<hub_now, active_connections, connection_last_seen, hubTaskVars,
                   hubBcVars, reaped>>

\* websocket_endpoint catches WebSocketDisconnect: manager.disconnect
\* (l.159-163, l.84-87).
HubEndpointDisconnect(c) ==
    /\ conn_pc[c] = "closing"
    /\ UNCHANGED nonHubVars
    /\ conn_pc' = [conn_pc EXCEPT ![c] = "ended"]
    /\ active_connections' = active_connections \ {c}
    /\ connection_last_seen' = DictPop(connection_last_seen, c)
    /\ UNCHANGED <<hub_now, hubTaskVars, hubBcVars, reaped>>

\* broadcast up to its await (l.104-113): the copy of the set is taken and one
\* send_message per member is handed to gather.
HubBroadcastBegin ==
    /\ bc_result # "running"
    /\ UNCHANGED nonHubVars
    /\ IF active_connections = {}
       THEN /\ bc_result' = "returned"
            /\ bc_targets' = {}
            /\ bc_status' = [c \in Conns |-> "none"]
       ELSE /\ bc_result' = "running"
            /\ bc_targets' = active_connections
            /\ bc_status' = [c \in Conns |->
                               IF c \in active_connections THEN "queued" ELSE "none"]
    /\ UNCHANGED <<hub_now, hubConnVars, hubTaskVars, reaped>>

\* send_message that sends to whoever is registered when it runs.
HubSendMessage_LiveSet(c, ok) ==
    /\ bc_result = "running"
    /\ c \in active_connections \cup bc_targets
    /\ bc_status[c] \in {"none", "queued"}
    /\ ok => conn_pc[c] = "open"
    /\ UNCHANGED nonHubVars
    /\ IF ok
       THEN /\ bc_status' = [bc_status EXCEPT ![c] = "sent"]
            /\ connection_last_seen' = DictSet(connection_last_seen, c, hub_now)
            /\ UNCHANGED active_connections
       ELSE /\ bc_status' = [bc_status EXCEPT ![c] = "failed"]
            /\ active_connections' = active_connections \ {c}
            /\ connection_last_seen' = DictPop(connection_last_seen, c)
    /\ UNCHANGED <<hub_now, conn_pc, hubTaskVars, bc_result, bc_targets, reaped>>

\* send_message without its except clauses: a failed send leaves the
\* connection registered.
HubSendMessage_NoExcept(c, ok) ==
    /\ bc_result = "running"
    /\ bc_status[c] = "queued"
    /\ ok => conn_pc[c] = "open"
    /\ UNCHANGED nonHubVars
    /\ IF ok
       THEN /\ bc_status' = [bc_status EXCEPT ![c] = "sent"]
            /\ connection_last_seen' = DictSet(connection_last_seen, c, hub_now)
       ELSE /\ bc_status' = [bc_status EXCEPT ![c] = "failed"]
            /\ UNCHANGED connection_last_seen
    /\ UNCHANGED <<hub_now, active_connections, conn_pc, hubTaskVars, bc_result,
                   bc_targets, reaped>>

\* send_message of one gathered send (l.93-102). ok: send_json returned, which
\* it can only on an open socket; otherwise it raised and the except clause
\* unregisters the connection.
HubSendMessage(c, ok) ==
    /\ bc_result = "running"
    /\ bc_status[c] = "queued"
    /\ ok => conn_pc[c] = "open"
    /\ UNCHANGED nonHubVars
    /\ IF ok
       THEN /\ bc_status' = [bc_status EXCEPT ![c] = "sent"]
            /\ connection_last_seen' = DictSet(connection_last_seen, c, hub_now)
            /\ UNCHANGED active_connections
       ELSE /\ bc_status' = [bc_status EXCEPT ![c] = "failed"]
            /\ active_connections' = active_connections \ {c}
            /\ connection_last_seen' = DictPop(connection_last_seen, c)
    /\ UNCHANGED <<hub_now, conn_pc, hubTaskVars, bc_result, bc_targets, reaped>>

\* gather has every result: broadcast returns (l.110-113).
HubBroadcastReturns ==
    /\ bc_result = "running"
    /\ \A c \in Conns : bc_status[c] # "queued"
    /\ UNCHANGED nonHubVars
    /\ bc_result' = "returned"
    /\ UNCHANGED <<hub_now, hubConnVars, hubTaskVars, bc_targets, bc_status, reaped>>

\* self._cleanup_task is None or self._cleanup_task.done() (l.41)
FieldNoneOrDone == cleanup_task = NoTask \/ task_state[cleanup_task] = "done"

\* asyncio.create_task(self._cleanup_loop()): the next task object.
NewTask == CHOOSE t \in Tasks :
               /\ task_state[t] = "unborn"
               /\ \A u \in Tasks : task_state[u] = "unborn" => t <= u

\* start_cleanup_task (l.38-42). The new task passes its while test and
\* starts its first sleep.
HubStartCleanupTask ==
    /\ FieldNoneOrDone => \E t \in Tasks : task_state[t] = "unborn"
    /\ UNCHANGED nonHubVars
    /\ hub_shutdown' = FALSE
    /\ IF FieldNoneOrDone
       THEN /\ cleanup_task' = NewTask
            /\ task_state' = [task_state EXCEPT ![NewTask] = "sleeping"]
            /\ task_wake' = [task_wake EXCEPT
                               ![NewTask] = hub_now + CleanupIntervalSeconds \div HubTickSeconds]
       ELSE UNCHANGED <<cleanup_task, task_state, task_wake>>
    /\ UNCHANGED <<hub_now, hubConnVars, task_cycled, stop_awaits, hubBcVars, reaped>>

\* stop_cleanup_task up to its await (l.44-50); one call at a time.
HubStopCleanupTask ==
    /\ stop_awaits = NoTask
    /\ UNCHANGED nonHubVars
    /\ hub_shutdown' = TRUE
    /\ IF ~FieldNoneOrDone
       THEN /\ task_state' = [task_state EXCEPT ![cleanup_task] = "cancelling"]
            /\ task_wake' = [task_wake EXCEPT ![cleanup_task] = 0]
            /\ stop_awaits' = cleanup_task
       ELSE UNCHANGED <<task_state, task_wake, stop_awaits>>
    /\ UNCHANGED <<hub_now, hubConnVars, cleanup_task, task_cycled, hubBcVars, reaped>>

\* The cancelled loop gets CancelledError in its sleep and breaks (l.73-74).
HubCleanupCancelled(t) ==
    /\ task_state[t] = "cancelling"
    /\ UNCHANGED nonHubVars
    /\ task_state' = [task_state EXCEPT ![t] = "done"]
    /\ UNCHANGED <<hub_now, hubConnVars, cleanup_task, task_wake, task_cycled,
                   hub_shutdown, stop_awaits, hubBcVars, reaped>>

\* stop_cleanup_task after its await (l.50-53).
HubStopResumes ==
    /\ stop_awaits # NoTask
    /\ task_state[stop_awaits] = "done"
    /\ UNCHANGED nonHubVars
    /\ stop_awaits' = NoTask
    /\ cleanup_task' = NoTask
    /\ UNCHANGED <<hub_now, hubConnVars, task_state, task_wake, task_cycled,
                   hub_shutdown, hubBcVars, reaped>>

\* Staleness that starts at the timeout itself.
IsStale_AtThreshold(last_seen) ==
    (hub_now - last_seen) * HubTickSeconds >= ConnectionTimeoutSeconds

\* now - last_seen > self._connection_timeout (l.66)
IsStale(last_seen) == (hub_now - last_seen) * HubTickSeconds > ConnectionTimeoutSeconds

\* The connections the loop finds stale (l.63-67).
StaleConnections ==
    {c \in DOMAIN connection_last_seen : IsStale(connection_last_seen[c])}

\* A turn of the loop without the test of _shutdown after the sleep.
HubCleanupCycle_NoShutdownTest(t) ==
    /\ task_state[t] = "sleeping"
    /\ hub_now >= task_wake[t]
    /\ UNCHANGED nonHubVars
    /\ active_connections' = active_connections \ StaleConnections
    /\ connection_last_seen' =
         [c \in (DOMAIN connection_last_seen) \ StaleConnections |->
            connection_last_seen[c]]
    /\ reaped' = reaped \cup (StaleConnections \cap active_connections)
    /\ task_cycled' = task_cycled \cup {t}
    /\ IF hub_shutdown
       THEN /\ task_state' = [task_state EXCEPT ![t] = "done"]
            /\ task_wake' = [task_wake EXCEPT ![t] = 0]
       ELSE /\ task_wake' = [task_wake EXCEPT
                               ![t] = hub_now + CleanupIntervalSeconds \div HubTickSeconds]
            /\ UNCHANGED task_state
    /\ UNCHANGED <<hub_now, conn_pc, cleanup_task, hub_shutdown, stop_awaits, hubBcVars>>

\* One turn of _cleanup_loop after its sleep (l.57-72).
HubCleanupCycle(t) ==
    /\ task_state[t] = "sleeping"
    /\ hub_now >= task_wake[t]
    /\ UNCHANGED nonHubVars
    /\ IF hub_shutdown
       THEN /\ task_state' = [task_state EXCEPT ![t] = "done"]
            /\ task_wake' = [task_wake EXCEPT ![t] = 0]
            /\ UNCHANGED <<active_connections, connection_last_seen, task_cycled, reaped>>
       ELSE /\ active_connections' = active_connections \ StaleConnections
            /\ connection_last_seen' =
                 [c \in (DOMAIN connection_last_seen) \ StaleConnections |->
                    connection_last_seen[c]]
            /\ reaped' = reaped \cup (StaleConnections \cap active_connections)
            /\ task_cycled' = task_cycled \cup {t}
            /\ task_wake' = [task_wake EXCEPT
                               ![t] = hub_now + CleanupIntervalSeconds \div HubTickSeconds]
            /\ UNCHANGED task_state
    /\ UNCHANGED <<hub_now, conn_pc, cleanup_task, hub_shutdown, stop_awaits, hubBcVars>>

\* HubTickSeconds pass; a sleep that is over ends before more time passes.
HubTick ==
    /\ hub_now < MaxHubTime
    /\ \A t \in Tasks : task_state[t] = "sleeping" => task_wake[t] > hub_now
    /\ UNCHANGED nonHubVars
    /\ hub_now' = hub_now + 1
    /\ UNCHANGED <<hubConnVars, hubTaskVars, hubBcVars, reaped>>

\* Connections and broadcasts.
HubNext ==
    \/ \E c \in Conns : HubConnect(c)
    \/ \E c \in Conns : HubPeerCloses(c)
    \/ \E c \in Conns : HubEndpointDisconnect(c)
    \/ HubBroadcastBegin
    \/ \E c \in Conns, ok \in BOOLEAN : HubSendMessage(c, ok)
    \/ HubBroadcastReturns

\* The connections that come and go while the cleanup loop runs.
ReaperConns == {"w1", "w2"}

\* Connections and the cleanup loop.
ReaperNext ==
    \/ \E c \in ReaperConns : HubConnect(c)
    \/ \E c \in ReaperConns : HubTouch(c)
    \/ \E c \in ReaperConns : HubPeerCloses(c)
    \/ \E c \in ReaperConns : HubEndpointDisconnect(c)
    \/ HubStartCleanupTask
    \/ HubStopCleanupTask
    \/ \E t \in Tasks : HubCleanupCancelled(t)
    \/ HubStopResumes
    \/ \E t \in Tasks : HubCleanupCycle(t)
    \/ HubTick

(***************************************************************************)
(* Session cache, services/session_manager.py                              *)
(* SessionManager is called from the async route get_status only, so each  *)
(* of its methods is one atomic step. _sessions is a dict: a sequence of   *)
(* <<client, status, timestamp>> in insertion order.                       *)
(***************************************************************************)

\* How long the clock runs, in ticks.
MaxSessTime == 3

\* Number of calls to the SessionManager in a run.
MaxSessCalls == 3

\* MAX_SESSIONS (session_manager.py:19), 1000 in the source, scaled down.
MaxSessions == 20

\* One tick of the session clock, in seconds.
SessTickSeconds == 150

\* SESSION_TTL = 300 (session_manager.py:18)
SESSION_TTL == 300

\* len(sorted_sessions) // 10 (session_manager.py:61)
EvictDivisor == 10

\* Client ids.
Clients == 1..(MaxSessions + 1)

\* The clients that ask again and again; every other client asks once per
\* session.
OpClients == {1, 2}

\* Snapshots.
Statuses == {"s1", "s2"}

\* What a one-time client gets cached.
CrowdStatus == "s1"

SessInit ==
    /\ sess_now = 0
    /\ sessions = <<>>
    /\ sess_calls = 0
    /\ sess_op = <<"none", 0, None>>
    /\ get_result = None
    /\ sess_purged = {}
    /\ sess_evicted = {}

\* The position of client c in the dict.
IndexOf(d, c) == CHOOSE i \in DOMAIN d : d[i][1] = c

\* An expiry test that also expires a session exactly SESSION_TTL old.
IsExpired_AtTtl(timestamp) == (sess_now - timestamp) * SessTickSeconds >= SESSION_TTL

\* time.time() - session["timestamp"] > self.SESSION_TTL (l.38, l.78)
IsExpired(timestamp) == (sess_now - timestamp) * SessTickSeconds > SESSION_TTL

\* The dict after cleanup_expired (l.74-81).
CleanupExpired(d) == SelectSeq(d, LAMBDA e : ~IsExpired(e[3]))

\* The position of entry i in sorted(items, key=timestamp), a stable sort,
\* counted from 0 (l.57-59).
SortedPosition(d, i) ==
    Cardinality({j \in DOMAIN d :
                    \/ d[j][3] < d[i][3]
                    \/ d[j][3] = d[i][3] /\ j < i})

\* An eviction count of one, whatever the size.
ToRemove_One(n) == 1

\* max(1, len(sorted_sessions) // 10) (l.61)
ToRemove(n) == IF n \div EvictDivisor >= 1 THEN n \div EvictDivisor ELSE 1

\* The clients of sorted_sessions[:to_remove] (l.62).
Oldest(d) == {d[i][1] : i \in {j \in DOMAIN d : SortedPosition(d, j) < ToRemove(Len(d))}}

\* The dict after the deletions of l.62-63.
EvictOldest(d) ==
    LET oldest == Oldest(d)
    IN  SelectSeq(d, LAMBDA e : e[1] \notin oldest)

\* self._sessions[client_id] = {...} (l.65): an existing key keeps its place.
Store(d, c, s) ==
    IF c \in Keys(d)
    THEN [d EXCEPT ![IndexOf(d, c)] = <<c, s, sess_now>>]
    ELSE Append(d, <<c, s, sess_now>>)

\* get_cached_status (l.24-42).
SessGetCachedStatus(c) ==
    /\ sess_calls < MaxSessCalls
    /\ UNCHANGED nonSessVars
    /\ sess_calls' = sess_calls + 1
    /\ sess_op' = <<"get", c, None>>
    /\ IF c \notin Keys(sessions)
       THEN /\ get_result' = None
            /\ UNCHANGED sessions
       ELSE IF IsExpired(sessions[IndexOf(sessions, c)][3])
            THEN /\ sessions' = WithoutKey(sessions, c)
                 /\ get_result' = None
            ELSE /\ get_result' = sessions[IndexOf(sessions, c)][2]
                 /\ UNCHANGED sessions
    /\ sess_purged' = {}
    /\ sess_evicted' = {}
    /\ UNCHANGED sess_now

\* An update_cache that inserts without looking at the size.
SessUpdateCache_NoCap(c, s) ==
    /\ sess_calls < MaxSessCalls
    /\ UNCHANGED nonSessVars
    /\ sess_calls' = sess_calls + 1
    /\ sess_op' = <<"update", c, s>>
    /\ sessions' = Store(sessions, c, s)
    /\ sess_purged' = {}
    /\ sess_evicted' = {}
    /\ UNCHANGED <<sess_now, get_result>>

\* update_cache (l.44-65).
SessUpdateCache(c, s) ==
    /\ sess_calls < MaxSessCalls
    /\ UNCHANGED nonSessVars
    /\ sess_calls' = sess_calls + 1
    /\ sess_op' = <<"update", c, s>>
    /\ LET atCap   == Len(sessions) >= MaxSessions
           purged  == IF atCap THEN CleanupExpired(sessions) ELSE sessions
           stillAt == atCap /\ Len(purged) >= MaxSessions
           kept    == IF stillAt THEN EvictOldest(purged) ELSE purged
       IN  /\ sessions' = Store(kept, c, s)
           /\ sess_purged' = Keys(sessions) \ Keys(purged)
           /\ sess_evicted' = Keys(purged) \ Keys(kept)
    /\ UNCHANGED <<sess_now, get_result>>

\* cleanup_expired called on its own (l.67-82).
SessCleanupExpired ==
    /\ sess_calls < MaxSessCalls
    /\ UNCHANGED nonSessVars
    /\ sess_calls' = sess_calls + 1
    /\ sess_op' = <<"cleanup", 0, None>>
    /\ sessions' = CleanupExpired(sessions)
    /\ sess_purged' = Keys(sessions) \ Keys(sessions')
    /\ sess_evicted' = {}
    /\ UNCHANGED <<sess_now, get_result>>

\* SessTickSeconds pass.
SessTick ==
    /\ sess_now < MaxSessTime
    /\ UNCHANGED nonSessVars
    /\ sess_now' = sess_now + 1
    /\ UNCHANGED <<sessions, sess_calls, sess_op, get_result, sess_purged, sess_evicted>>

\* The one-time client that asks next: the least id without a session.
NextCrowdClient ==
    LET free == (Clients \ OpClients) \ Keys(sessions)
    IN  IF free = {} THEN {} ELSE {CHOOSE c \in free : \A d \in free : c <= d}

\* The cache used by the clients that ask again and again.
SessNext ==
    \/ \E c \in OpClients : SessGetCachedStatus(c)
    \/ \E c \in OpClients, s \in Statuses : SessUpdateCache(c, s)
    \/ SessCleanupExpired
    \/ SessTick

\* The cache used by every client.
SessCapNext ==
    \/ \E c \in OpClients : SessGetCachedStatus(c)
    \/ \E c \in OpClients, s \in Statuses : SessUpdateCache(c, s)
    \/ \E c \in NextCrowdClient : SessUpdateCache(c, CrowdStatus)
    \/ SessCleanupExpired
    \/ SessTick

\* Timestamps of a dict that n clients have filled: entry i was last stored
\* at (a * i + b) % m.
FilledSessions(n, a, b, m) == [i \in 1..n |-> <<i, CrowdStatus, (a * i + b) % m>>]

\* The cache once SESSION_TTL has passed since the first request, full or
\* one short of full.
SessCapInit ==
    /\ sess_now = SESSION_TTL \div SessTickSeconds
    /\ \E n \in {MaxSessions - 1, MaxSessions}, a \in {1, 3}, b \in {0, 1},
          m \in 1..(SESSION_TTL \div SessTickSeconds + 1) :
          sessions = FilledSessions(n, a, b, m)
    /\ sess_calls = 0
    /\ sess_op = <<"none", 0, None>>
    /\ get_result = None
    /\ sess_purged = {}
    /\ sess_evicted = {}

(***************************************************************************)
(* Watcher services, services/git_watcher_service.py (GitWatcherService)   *)
(* and services/watcher_service.py (FileWatcherService).                   *)
(* start_watching has no await and stop_watching is synchronous: each call *)
(* is one step on the event loop.                                          *)
(***************************************************************************)

\* Number of start_watching and stop_watching calls in a run.
MaxSvcCalls == 4

\* Number of Observer objects a watcher creates in a run.
MaxObservers == 3

Watchers == {"git", "file"}

\* Roots: a repository, a directory without .git, a path that does not exist.
Paths == {"repo", "dir", "missing"}

\* Observer objects of one watcher, in the order of their creation.
Observers == 1..MaxObservers

\* self.observer is None
NoObserver == 0

\* What can go wrong after the observer is created (l.227-228, l.275-276).
Faults == {"none", "schedule", "start"}

\* watch_path.exists() (l.211, l.261)
PathExists(path) == path # "missing"

\* (watch_path / ".git").exists() (l.215)
HasGit(path) == path = "repo"

\* A validity test that only asks whether the path exists.
Rejected_ExistsOnly(w, path) == ~PathExists(path)

\* start_watching raises ValueError for this root (git l.211-216, file l.261-262).
Rejected(w, path) == ~PathExists(path) \/ (w = "git" /\ ~HasGit(path))

\* GitWatcherService.__init__ (l.184-189).
GitServiceInit ==
    [watching |-> FALSE, watched_path |-> None, observer |-> NoObserver,
     handler |-> "none", processor |-> "none",
     threads |-> [o \in Observers |-> "unborn"]]

\* FileWatcherService.__init__ (l.234-245): an Observer, and a handler whose
\* processor thread runs.
FileServiceInit ==
    [watching |-> FALSE, watched_path |-> None, observer |-> 1,
     handler |-> "set", processor |-> "alive",
     threads |-> [o \in Observers |-> IF o = 1 THEN "new" ELSE "unborn"]]

SvcInit ==
    /\ svc = [w \in Watchers |-> IF w = "git" THEN GitServiceInit ELSE FileServiceInit]
    /\ svc_calls = 0
    /\ svc_op = <<"none", "none", None>>
    /\ svc_raised = FALSE
    /\ svc_joins = 0

\* The thread of an observer after stop() and join(timeout=5): ended, or still
\* alive when the join timed out. An observer that never ran has no thread.
AfterStopAndJoin(state, joined) ==
    IF state = "running" THEN (IF joined THEN "dead" ELSE "stopping") ELSE state

\* GitWatcherService.stop_watching (l.239-256).
GitStopped(r, joined) ==
    [r EXCEPT !.handler = "none",
              !.observer = NoObserver,
              !.watching = FALSE,
              !.threads = IF r.observer # NoObserver
                          THEN [@ EXCEPT ![r.observer] = AfterStopAndJoin(@, joined)]
                          ELSE @]

\* join calls made by GitWatcherService.stop_watching (l.245-248).
GitStopJoins(r) == IF r.observer # NoObserver THEN 1 ELSE 0

\* FileWatcherService.stop_watching without the test of self.watching.
FileStopped_NoGuard(r, joined) ==
    [r EXCEPT !.watching = FALSE,
              !.processor = "dead",
              !.threads = [@ EXCEPT ![r.observer] = AfterStopAndJoin(@, joined)]]

\* FileWatcherService.stop_watching (l.280-287), with CodeFileHandler.stop
\* (l.213-221).
FileStopped(r, joined) ==
    IF r.watching
    THEN [r EXCEPT !.watching = FALSE,
                   !.processor = "dead",
                   !.threads = [@ EXCEPT ![r.observer] = AfterStopAndJoin(@, joined)]]
    ELSE r

\* join calls made by FileWatcherService.stop_watching: the observer (l.284)
\* and, while the handler is running, the processor thread (l.215-219).
FileStopJoins(r) ==
    IF r.watching THEN 1 + (IF r.processor = "alive" THEN 1 ELSE 0) ELSE 0

Stopped(w, r, joined) == IF w = "git" THEN GitStopped(r, joined) ELSE FileStopped(r, joined)

StopJoins(w, r) == IF w = "git" THEN GitStopJoins(r) ELSE FileStopJoins(r)

\* Observer(): the next observer object of the watcher.
NewObserver(r) ==
    CHOOSE o \in Observers :
        /\ r.threads[o] = "unborn"
        /\ \A p \in Observers : r.threads[p] = "unborn" => o <= p

\* An observer after schedule and start, one of which may have raised.
AfterScheduleAndStart(fault) ==
    IF fault = "none" THEN "running" ELSE IF fault = "schedule" THEN "new" ELSE "scheduled"

\* GitWatcherService.start_watching after its checks (l.218-237).
GitStarted(r, path, fault) ==
    LET o == NewObserver(r)
    IN  IF fault = "none"
        THEN [r EXCEPT !.handler = "set", !.observer = o, !.watching = TRUE,
                       !.watched_path = path,
                       !.threads = [@ EXCEPT ![o] = AfterScheduleAndStart(fault)]]
        ELSE [r EXCEPT !.handler = "none", !.observer = NoObserver,
                       !.threads = [@ EXCEPT ![o] = AfterScheduleAndStart(fault)]]

\* FileWatcherService.start_watching after its check (l.264-278).
FileStarted(r, path, fault) ==
    LET o == NewObserver(r)
    IN  [r EXCEPT !.observer = o,
                  !.watched_path = path,
                  !.watching = (fault = "none"),
                  !.threads = [@ EXCEPT ![o] = AfterScheduleAndStart(fault)]]

\* start_watching (git l.195-237, file l.247-278).
SvcStartWatching(w, path, fault, joined) ==
    /\ svc_calls < MaxSvcCalls
    /\ ~Rejected(w, path) => \E o \in Observers : svc[w].threads[o] = "unborn"
    /\ UNCHANGED nonSvcVars
    /\ svc_calls' = svc_calls + 1
    /\ svc_op' = <<w, "start", path>>
    /\ LET r0 == svc[w]
           r1 == IF r0.watching THEN Stopped(w, r0, joined) ELSE r0
       IN  /\ svc_joins' = IF r0.watching THEN StopJoins(w, r0) ELSE 0
           /\ IF Rejected(w, path)
              THEN /\ svc' = [svc EXCEPT ![w] = r1]
                   /\ svc_raised' = TRUE
              ELSE /\ svc' = [svc EXCEPT ![w] = IF w = "git"
                                                 THEN GitStarted(r1, path, fault)
                                                 ELSE FileStarted(r1, path, fault)]
                   /\ svc_raised' = (fault # "none")

\* stop_watching (git l.239-256, file l.280-287).
SvcStopWatching(w, joined) ==
    /\ svc_calls < MaxSvcCalls
    /\ UNCHANGED nonSvcVars
    /\ svc_calls' = svc_calls + 1
    /\ svc_op' = <<w, "stop", None>>
    /\ svc' = [svc EXCEPT ![w] = Stopped(w, svc[w], joined)]
    /\ svc_joins' = StopJoins(w, svc[w])
    /\ svc_raised' = FALSE

\* An observer thread that outlived its join ends.
SvcObserverExits(w, o) ==
    /\ svc[w].threads[o] = "stopping"
    /\ UNCHANGED nonSvcVars
    /\ svc' = [svc EXCEPT ![w].threads[o] = "dead"]
    /\ UNCHANGED <<svc_calls, svc_op, svc_raised, svc_joins>>

SvcNext ==
    \/ \E w \in Watchers, path \in Paths, fault \in Faults, joined \in BOOLEAN :
          SvcStartWatching(w, path, fault, joined)
    \/ \E w \in Watchers, joined \in BOOLEAN : SvcStopWatching(w, joined)
    \/ \E w \in Watchers, o \in Observers : SvcObserverExits(w, o)

(***************************************************************************)
(* Hand-off from the watcher threads into the event loop, step by step:    *)
(* GitChangeHandler.on_any_event and _debounced_broadcast, and             *)
(* CodeFileHandler._add_pending_change, _process_pending_changes and       *)
(* _reindex_file, with the lock of each handler and the state of the loop. *)
(* Time is left out: whether a change is recent or due is an input.        *)
(***************************************************************************)

\* The observer thread and the loop coroutine of the git handler; the
\* observer thread and the processor thread of the file handler.
HoThreads == {"git_observer", "git_loop", "fw_observer", "fw_processor"}

\* The handler, and so the lock, a thread works on.
HandlerOf(t) == IF t \in {"git_observer", "git_loop"} THEN "git" ELSE "file"

HoInit ==
    /\ ho_loop = "running"
    /\ ho_established = [w \in Watchers |-> FALSE]
    /\ ho_lock = [w \in Watchers |-> "free"]
    /\ ho_pc = [t \in HoThreads |-> IF t = "git_loop" THEN "none" ELSE "idle"]
    /\ ho_flag = FALSE
    /\ ho_task = "none"
    /\ ho_fw_pending = FALSE
    /\ ho_result = [w \in Watchers |-> "none"]

\* set_broadcast_callback with the running loop (git l.49-54 from l.220-222;
\* file l.56-58 with l.268).
HoEstablish(w) ==
    /\ ho_loop = "running"
    /\ ~ho_established[w]
    /\ UNCHANGED nonHoVars
    /\ ho_established' = [ho_established EXCEPT ![w] = TRUE]
    /\ UNCHANGED <<ho_loop, ho_lock, ho_pc, ho_flag, ho_task, ho_fw_pending, ho_result>>

\* The owning event loop stops.
HoLoopStops ==
    /\ ho_loop = "running"
    /\ UNCHANGED nonHoVars
    /\ ho_loop' = "stopped"
    /\ UNCHANGED <<ho_established, ho_lock, ho_pc, ho_flag, ho_task, ho_fw_pending, ho_result>>

\* The stopped loop is closed.
HoLoopCloses ==
    /\ ho_loop = "stopped"
    /\ \A t \in HoThreads : t = "git_loop" => ho_pc[t] \in {"none", "sleeping"}
    /\ UNCHANGED nonHoVars
    /\ ho_loop' = "closed"
    /\ UNCHANGED <<ho_established, ho_lock, ho_pc, ho_flag, ho_task, ho_fw_pending, ho_result>>

\* on_any_event for a relevant file enters `with self.lock` (l.76).
HoGitEventAcquire ==
    /\ ho_pc["git_observer"] = "idle"
    /\ ho_lock["git"] = "free"
    /\ UNCHANGED nonHoVars
    /\ ho_lock' = [ho_lock EXCEPT !["git"] = "observer"]
    /\ ho_pc' = [ho_pc EXCEPT !["git_observer"] = "locked"]
    /\ UNCHANGED <<ho_loop, ho_established, ho_flag, ho_task, ho_fw_pending, ho_result>>

\* on_any_event l.80-86: the flag is set; the thread goes on to the
\* scheduling call, or leaves the with block.
HoGitEventUpdate ==
    /\ ho_pc["git_observer"] = "locked"
    /\ UNCHANGED nonHoVars
    /\ ho_flag' = TRUE
    /\ IF ho_established["git"] /\ ho_task \in {"none", "done"}
       THEN /\ ho_pc' = [ho_pc EXCEPT !["git_observer"] = "scheduling"]
            /\ UNCHANGED <<ho_lock, ho_result>>
       ELSE /\ ho_pc' = [ho_pc EXCEPT !["git_observer"] = "idle"]
            /\ ho_lock' = [ho_lock EXCEPT !["git"] = "free"]
            /\ ho_result' = IF ho_established["git"]
                            THEN ho_result
                            ELSE [ho_result EXCEPT !["git"] = "dropped"]
    /\ UNCHANGED <<ho_loop, ho_established, ho_task, ho_fw_pending>>

\* on_any_event l.87-89: run_coroutine_threadsafe, which raises RuntimeError
\* on a closed loop; the exception leaves the with block and on_any_event.
HoGitEventSchedule ==
    /\ ho_pc["git_observer"] = "scheduling"
    /\ UNCHANGED nonHoVars
    /\ ho_lock' = [ho_lock EXCEPT !["git"] = "free"]
    /\ IF ho_loop = "closed"
       THEN /\ ho_pc' = [ho_pc EXCEPT !["git_observer"] = "raised"]
            /\ ho_result' = [ho_result EXCEPT !["git"] = "raised"]
            /\ UNCHANGED ho_task
       ELSE /\ ho_pc' = [ho_pc EXCEPT !["git_observer"] = "idle", !["git_loop"] = "sleeping"]
            /\ ho_result' = [ho_result EXCEPT !["git"] = "scheduled"]
            /\ ho_task' = "pending"
    /\ UNCHANGED <<ho_loop, ho_established, ho_flag, ho_fw_pending>>

\* _debounced_broadcast after its sleep enters `with self.lock` (l.124-126).
HoGitWake ==
    /\ ho_loop = "running"
    /\ ho_pc["git_loop"] = "sleeping"
    /\ ho_lock["git"] = "free"
    /\ UNCHANGED nonHoVars
    /\ ho_lock' = [ho_lock EXCEPT !["git"] = "loop"]
    /\ ho_pc' = [ho_pc EXCEPT !["git_loop"] = "locked"]
    /\ UNCHANGED <<ho_loop, ho_established, ho_flag, ho_task, ho_fw_pending, ho_result>>

\* _debounced_broadcast l.127-143. recent: a change came during the sleep.
HoGitCheck(recent) ==
    /\ ho_pc["git_loop"] = "locked"
    /\ UNCHANGED nonHoVars
    /\ IF ~ho_flag
       THEN /\ ho_pc' = [ho_pc EXCEPT !["git_loop"] = "none"]
            /\ ho_lock' = [ho_lock EXCEPT !["git"] = "free"]
            /\ ho_task' = "done"
            /\ UNCHANGED ho_flag
       ELSE IF recent
            THEN /\ ho_pc' = [ho_pc EXCEPT !["git_loop"] = "scheduling"]
                 /\ UNCHANGED <<ho_lock, ho_task, ho_flag>>
            ELSE /\ ho_pc' = [ho_pc EXCEPT !["git_loop"] = "broadcasting"]
                 /\ ho_lock' = [ho_lock EXCEPT !["git"] = "free"]
                 /\ ho_flag' = FALSE
                 /\ UNCHANGED ho_task
    /\ UNCHANGED <<ho_loop, ho_established, ho_fw_pending, ho_result>>

\* _debounced_broadcast l.136-140: the reschedule, inside the with block.
HoGitReschedule ==
    /\ ho_pc["git_loop"] = "scheduling"
    /\ UNCHANGED nonHoVars
    /\ ho_pc' = [ho_pc EXCEPT !["git_loop"] = "sleeping"]
    /\ ho_lock' = [ho_lock EXCEPT !["git"] = "free"]
    /\ ho_task' = "pending"
    /\ UNCHANGED <<ho_loop, ho_established, ho_flag, ho_fw_pending, ho_result>>

\* _broadcast_git_status (l.146-178) runs to its end.
HoGitBroadcast ==
    /\ ho_loop = "running"
    /\ ho_pc["git_loop"] = "broadcasting"
    /\ UNCHANGED nonHoVars
    /\ ho_pc' = [ho_pc EXCEPT !["git_loop"] = "none"]
    /\ ho_task' = "done"
    /\ UNCHANGED <<ho_loop, ho_established, ho_lock, ho_flag, ho_fw_pending, ho_result>>

\* _add_pending_change enters `with self.lock` (l.122).
HoFwAddAcquire ==
    /\ ho_pc["fw_observer"] = "idle"
    /\ ho_lock["file"] = "free"
    /\ UNCHANGED nonHoVars
    /\ ho_lock' = [ho_lock EXCEPT !["file"] = "observer"]
    /\ ho_pc' = [ho_pc EXCEPT !["fw_observer"] = "locked"]
    /\ UNCHANGED <<ho_loop, ho_established, ho_flag, ho_task, ho_fw_pending, ho_result>>

\* _add_pending_change l.123-135.
HoFwAddRelease ==
    /\ ho_pc["fw_observer"] = "locked"
    /\ UNCHANGED nonHoVars
    /\ ho_fw_pending' = TRUE
    /\ ho_lock' = [ho_lock EXCEPT !["file"] = "free"]
    /\ ho_pc' = [ho_pc EXCEPT !["fw_observer"] = "idle"]
    /\ UNCHANGED <<ho_loop, ho_established, ho_flag, ho_task, ho_result>>

\* _process_pending_changes enters `with self.lock` (l.155).
HoFwCollectAcquire ==
    /\ ho_pc["fw_processor"] = "idle"
    /\ ho_fw_pending
    /\ ho_lock["file"] = "free"
    /\ UNCHANGED nonHoVars
    /\ ho_lock' = [ho_lock EXCEPT !["file"] = "processor"]
    /\ ho_pc' = [ho_pc EXCEPT !["fw_processor"] = "locked"]
    /\ UNCHANGED <<ho_loop, ho_established, ho_flag, ho_task, ho_fw_pending, ho_result>>

\* _process_pending_changes l.157-160. due: the change has waited long enough.
HoFwCollectRelease(due) ==
    /\ ho_pc["fw_processor"] = "locked"
    /\ UNCHANGED nonHoVars
    /\ ho_lock' = [ho_lock EXCEPT !["file"] = "free"]
    /\ IF due
       THEN /\ ho_fw_pending' = FALSE
            /\ ho_pc' = [ho_pc EXCEPT !["fw_processor"] = "reindexing"]
       ELSE /\ ho_pc' = [ho_pc EXCEPT !["fw_processor"] = "idle"]
            /\ UNCHANGED ho_fw_pending
    /\ UNCHANGED <<ho_loop, ho_established, ho_flag, ho_task, ho_result>>

\* _reindex_file l.173-197: the file is indexed; without callback or loop the
\* change is not announced.
HoFwReindex ==
    /\ ho_pc["fw_processor"] = "reindexing"
    /\ UNCHANGED nonHoVars
    /\ IF ho_established["file"]
       THEN /\ ho_pc' = [ho_pc EXCEPT !["fw_processor"] = "scheduling"]
            /\ UNCHANGED ho_result
       ELSE /\ ho_pc' = [ho_pc EXCEPT !["fw_processor"] = "idle"]
            /\ ho_result' = [ho_result EXCEPT !["file"] = "dropped"]
    /\ UNCHANGED <<ho_loop, ho_established, ho_lock, ho_flag, ho_task, ho_fw_pending>>

\* _reindex_file l.206-211: run_coroutine_threadsafe; the RuntimeError of a
\* closed loop is caught and logged.
HoFwSchedule ==
    /\ ho_pc["fw_processor"] = "scheduling"
    /\ UNCHANGED nonHoVars
    /\ ho_pc' = [ho_pc EXCEPT !["fw_processor"] = "idle"]
    /\ ho_result' = [ho_result EXCEPT
                       !["file"] = IF ho_loop = "closed" THEN "dropped" ELSE "scheduled"]
    /\ UNCHANGED <<ho_loop, ho_established, ho_lock, ho_flag, ho_task, ho_fw_pending>>

HoNext ==
    \/ \E w \in Watchers : HoEstablish(w)
    \/ HoLoopStops
    \/ HoLoopCloses
    \/ HoGitEventAcquire
    \/ HoGitEventUpdate
    \/ HoGitEventSchedule
    \/ HoGitWake
    \/ \E recent \in BOOLEAN : HoGitCheck(recent)
    \/ HoGitReschedule
    \/ HoGitBroadcast
    \/ HoFwAddAcquire
    \/ HoFwAddRelease
    \/ HoFwCollectAcquire
    \/ \E due \in BOOLEAN : HoFwCollectRelease(due)
    \/ HoFwReindex
    \/ HoFwSchedule

(***************************************************************************)
(* Command flow: the bridge of routers/editor.py together with             *)
(* websocket_endpoint of routers/websocket.py, the only place where a      *)
(* message of the host arrives. No code of the repository calls            *)
(* set_godot_connection, clear_godot_connection or handle_godot_response;  *)
(* the flow lets the first two happen so that a send can be pending.       *)
(***************************************************************************)

\* The connection of the host on /ws; the bridge knows it as Ws.
HostConn == "w1"

\* data.get("type") of an inbound message (l.137-157); "editor_response" is
\* a type the endpoint has no branch for.
MsgTypes == {"ai_ask", "completion", "ping", "editor_response"}

\* No message handled yet.
NoMessage == <<"", "", NoId>>

EpInit ==
    /\ ep_last = NoMessage
    /\ ep_reply = "none"

\* What the endpoint does with a message of this type (l.139-157).
ReplyTo(type) ==
    CASE type = "ai_ask"     -> "ai_stream"
      [] type = "completion" -> "completion"
      [] type = "ping"       -> "pong"
      [] OTHER               -> "error: unknown message type"

\* One turn of the receive loop of websocket_endpoint (l.132-157): a message
\* of the given type that carries request_id rid.
EndpointReceive(c, type, rid) ==
    /\ conn_pc[c] = "open"
    /\ UNCHANGED nonEpVars
    /\ connection_last_seen' = DictSet(connection_last_seen, c, hub_now)
    /\ ep_last' = <<c, type, rid>>
    /\ ep_reply' = ReplyTo(type)
    /\ UNCHANGED <<hub_now, active_connections, conn_pc, hubTaskVars, hubBcVars, reaped>>

\* The bridge and the endpoint of the host's connection.
FlowNext ==
    \/ HubConnect(HostConn)
    \/ SetGodotConnection
    \/ ClearGodotConnection
    \/ \E i \in Calls : SendToGodot(i)
    \/ \E i \in Calls : SendJsonReturns(i)
    \/ \E i \in Calls : SendJsonFails(i)
    \/ \E type \in MsgTypes, rid \in ResponseIds : EndpointReceive(HostConn, type, rid)
    \/ \E i \in Calls : TimeoutExpires(i)
    \/ \E i \in Calls : WaitForReturns(i)

(***************************************************************************)
(* Life cycle of the filesystem watcher, services/watcher_service.py:      *)
(* FileWatcherService with the threads it owns (the thread of each         *)
(* Observer, the processor thread CodeFileHandler starts at construction)  *)
(* and the broadcasts _reindex_file hands to the event loop. start and     *)
(* stop are the routes of routers/watcher.py. Time is left out: whether a  *)
(* pending change is due, and whether a join returns in time, are inputs.  *)
(***************************************************************************)

\* Number of start_watching and stop_watching calls in a run.
MaxLcCalls == 3

\* Number of relevant change events in a run.
MaxLcEvents == 2

\* FileWatcherService.__init__ (l.234-245) with CodeFileHandler.__init__
\* (l.27-54): an Observer that is not started, a handler that runs and whose
\* processor thread is started, no callback and no loop.
LcInit ==
    /\ lc_watching = FALSE
    /\ lc_observer = "unstarted"
    /\ lc_orphans = 0
    /\ lc_running = TRUE
    /\ lc_processor = "waiting"
    /\ lc_pending = FALSE
    /\ lc_callback = FALSE
    /\ lc_loop = FALSE
    /\ lc_queued = 0
    /\ lc_calls = 0
    /\ lc_events = 0
    /\ lc_reindexed = 0
    /\ lc_delivered = 0
    /\ lc_op = "none"

\* The processor thread at the top of `while self.running` (l.139-150).
LoopTop(running, pending) ==
    IF ~running THEN "exited"
    ELSE IF pending THEN "sleeping" ELSE "waiting"

\* observer.stop(); observer.join(timeout=5) (l.283-284): the thread of a
\* started Observer has ended when join returns, or join timed out.
ObserverAfterJoin(state, joined) ==
    IF state \in {"running", "stopping"}
    THEN (IF joined THEN "dead" ELSE "stopping")
    ELSE state

\* _reindex_file l.196-197: the broadcast needs the callback and the loop.
Announces == lc_callback /\ lc_loop

\* The handler state as stop_watching finds it.
HandlerNow ==
    [running |-> lc_running, processor |-> lc_processor, pending |-> lc_pending,
     reindexed |-> lc_reindexed, queued |-> lc_queued]

\* CodeFileHandler.stop (l.213-221) with what the processor thread does
\* while it is joined: a thread in change_event.wait is woken and breaks
\* (l.143-145); a thread in sleep(0.1) or in _reindex_file finishes its turn
\* of the loop, which does not test self.running before l.139, and is
\* joined for at most 5 s. joined: the thread ended within the timeout.
\* worked: on its way out it reindexed the file it had in hand, or the
\* pending one that was due.
HandlerStopped(h, joined, worked) ==
    IF ~h.running THEN h
    ELSE IF h.processor = "waiting"
    THEN [h EXCEPT !.running = FALSE, !.processor = "exited"]
    ELSE IF ~joined \/ h.processor = "exited"
    THEN [h EXCEPT !.running = FALSE]
    ELSE LET did == worked /\ (h.processor = "reindexing" \/ h.pending)
         IN  [running |-> FALSE,
              processor |-> "exited",
              pending |-> IF h.processor = "sleeping" /\ did THEN FALSE ELSE h.pending,
              reindexed |-> h.reindexed + (IF did THEN 1 ELSE 0),
              queued |-> h.queued + (IF did /\ Announces THEN 1 ELSE 0)]

\* stop_watching (l.280-287): everything is under `if self.watching`.
\* The result: watching, observer, handler.
StopWatching(joinedObserver, joinedProcessor, worked) ==
    IF lc_watching
    THEN [watching |-> FALSE,
          observer |-> ObserverAfterJoin(lc_observer, joinedObserver),
          handler |-> HandlerStopped(HandlerNow, joinedProcessor, worked)]
    ELSE [watching |-> lc_watching, observer |-> lc_observer, handler |-> HandlerNow]

\* The handler fields take the values of h.
HandlerBecomes(h) ==
    /\ lc_running' = h.running
    /\ lc_processor' = h.processor
    /\ lc_pending' = h.pending
    /\ lc_reindexed' = h.reindexed
    /\ lc_queued' = h.queued

\* POST /watcher/stop (routers/watcher.py l.46-56) and FileWatcherService.stop
\* (l.289-291), which main.py calls at shutdown: both are stop_watching.
LcStopWatching(via, joinedObserver, joinedProcessor, worked) ==
    /\ lc_calls < MaxLcCalls
    /\ UNCHANGED nonLcVars
    /\ LET s == StopWatching(joinedObserver, joinedProcessor, worked)
       IN  /\ lc_watching' = s.watching
           /\ lc_observer' = s.observer
           /\ HandlerBecomes(s.handler)
    /\ lc_calls' = lc_calls + 1
    /\ lc_op' = via
    /\ UNCHANGED <<lc_orphans, lc_callback, lc_loop, lc_events, lc_delivered>>

\* POST /watcher/start (routers/watcher.py l.29-43): start_watching(path)
\* without a callback (l.247-278). A watching service is stopped first; a new
\* Observer replaces the old one, whose thread may still be alive; the
\* handler, and with it the processor thread, is the one of construction.
\* fault: schedule or start raises.
LcStartWatching(exists, fault, joinedObserver, joinedProcessor, worked) ==
    /\ lc_calls < MaxLcCalls
    /\ UNCHANGED nonLcVars
    /\ lc_calls' = lc_calls + 1
    /\ LET s == StopWatching(joinedObserver, joinedProcessor, worked)
       IN  /\ HandlerBecomes(s.handler)
           /\ IF ~exists
              THEN /\ lc_op' = "start_rejected"
                   /\ lc_observer' = s.observer
                   /\ lc_watching' = s.watching
                   /\ UNCHANGED <<lc_orphans, lc_loop>>
              ELSE /\ lc_orphans' = lc_orphans + (IF s.observer = "stopping" THEN 1 ELSE 0)
                   /\ lc_loop' = TRUE
                   /\ IF fault
                      THEN /\ lc_op' = "start_raised"
                           /\ lc_observer' = "unstarted"
                           /\ lc_watching' = s.watching
                      ELSE /\ lc_op' = "start"
                           /\ lc_observer' = "running"
                           /\ lc_watching' = TRUE
    /\ UNCHANGED <<lc_callback, lc_events, lc_delivered>>

\* FileWatcherService.set_broadcast_callback (l.293-295); no route calls it.
LcSetBroadcastCallback ==
    /\ ~lc_callback
    /\ UNCHANGED nonLcVars
    /\ lc_callback' = TRUE
    /\ UNCHANGED lc_op
    /\ UNCHANGED <<lc_watching, lc_observer, lc_orphans, lc_running, lc_processor, lc_pending,
                   lc_loop, lc_queued, lc_calls, lc_events, lc_reindexed, lc_delivered>>

\* The thread of a stopped Observer, current or replaced, ends.
LcObserverExits ==
    /\ lc_observer = "stopping" \/ lc_orphans > 0
    /\ UNCHANGED nonLcVars
    /\ \/ /\ lc_observer = "stopping"
          /\ lc_observer' = "dead"
          /\ UNCHANGED lc_orphans
       \/ /\ lc_orphans > 0
          /\ lc_orphans' = lc_orphans - 1
          /\ UNCHANGED lc_observer
    /\ UNCHANGED lc_op
    /\ UNCHANGED <<lc_watching, lc_running, lc_processor, lc_pending, lc_callback, lc_loop,
                   lc_queued, lc_calls, lc_events, lc_reindexed, lc_delivered>>

\* The observer thread dispatches on_modified or on_created for a relevant
\* file (l.60-76): _add_pending_change (l.115-135).
LcEvent ==
    /\ lc_observer = "running"
    /\ lc_events < MaxLcEvents
    /\ UNCHANGED nonLcVars
    /\ lc_pending' = TRUE
    /\ lc_events' = lc_events + 1
    /\ UNCHANGED lc_op
    /\ UNCHANGED <<lc_watching, lc_observer, lc_orphans, lc_running, lc_processor, lc_callback,
                   lc_loop, lc_queued, lc_calls, lc_reindexed, lc_delivered>>

\* change_event.wait returns (l.143-146): woken by a change, or timed out.
LcWaitReturns ==
    /\ lc_processor = "waiting"
    /\ lc_pending \/ ~lc_running
    /\ UNCHANGED nonLcVars
    /\ lc_processor' = LoopTop(lc_running, lc_pending)
    /\ UNCHANGED lc_op
    /\ UNCHANGED <<lc_watching, lc_observer, lc_orphans, lc_running, lc_pending, lc_callback,
                   lc_loop, lc_queued, lc_calls, lc_events, lc_reindexed, lc_delivered>>

\* sleep(0.1) returns and the pending changes are looked at (l.148-160); the
\* sleep branch does not test self.running. due: the change has been pending
\* for debounce_seconds.
LcCollect(due) ==
    /\ lc_processor = "sleeping"
    /\ UNCHANGED nonLcVars
    /\ IF due /\ lc_pending
       THEN /\ lc_pending' = FALSE
            /\ lc_processor' = "reindexing"
       ELSE /\ lc_processor' = LoopTop(lc_running, lc_pending)
            /\ UNCHANGED lc_pending
    /\ UNCHANGED lc_op
    /\ UNCHANGED <<lc_watching, lc_observer, lc_orphans, lc_running, lc_callback, lc_loop,
                   lc_queued, lc_calls, lc_events, lc_reindexed, lc_delivered>>

\* _reindex_file (l.166-211). indexed: the file exists and has chunks, and
\* the index takes them.
LcReindexFile(indexed) ==
    /\ lc_processor = "reindexing"
    /\ UNCHANGED nonLcVars
    /\ lc_processor' = LoopTop(lc_running, lc_pending)
    /\ IF indexed
       THEN /\ lc_reindexed' = lc_reindexed + 1
            /\ lc_queued' = lc_queued + (IF Announces THEN 1 ELSE 0)
       ELSE UNCHANGED <<lc_reindexed, lc_queued>>
    /\ UNCHANGED lc_op
    /\ UNCHANGED <<lc_watching, lc_observer, lc_orphans, lc_running, lc_pending, lc_callback,
                   lc_loop, lc_calls, lc_events, lc_delivered>>

\* The event loop runs a coroutine _reindex_file handed to it: the callback
\* broadcasts the message (routers/websocket.py l.257-258).
LcDeliver ==
    /\ lc_queued > 0
    /\ UNCHANGED nonLcVars
    /\ lc_queued' = lc_queued - 1
    /\ lc_delivered' = lc_delivered + 1
    /\ UNCHANGED lc_op
    /\ UNCHANGED <<lc_watching, lc_observer, lc_orphans, lc_running, lc_processor, lc_pending,
                   lc_callback, lc_loop, lc_calls, lc_events, lc_reindexed>>

LcNext ==
    \/ HubConnect(HostConn)
    \/ \E exists, fault, jo, jp, worked \in BOOLEAN :
          LcStartWatching(exists, fault, jo, jp, worked)
    \/ \E via \in {"stop_watching", "stop"}, jo, jp, worked \in BOOLEAN :
          LcStopWatching(via, jo, jp, worked)
    \/ LcSetBroadcastCallback
    \/ LcObserverExits
    \/ LcEvent
    \/ LcWaitReturns
    \/ \E due \in BOOLEAN : LcCollect(due)
    \/ \E indexed \in BOOLEAN : LcReindexFile(indexed)
    \/ LcDeliver

\* The bridge with tasks that may be cancelled.
CancelNext ==
    \/ SetGodotConnection
    \/ ClearGodotConnection
    \/ \E i \in Calls : SendToGodot(i)
    \/ \E i \in Calls : SendJsonReturns(i)
    \/ \E i \in Calls : SendJsonFails(i)
    \/ \E id \in ResponseIds, r \in Results : HandleGodotResponse(id, r)
    \/ \E i \in Calls : TimeoutExpires(i)
    \/ \E i \in Calls : WaitForReturns(i)
    \/ \E i \in Calls : TaskCancelled(i)

\* A state the bridge reaches after the counter has gone round once: the first
\* request ever made (req_1) is still awaiting its response while 999998 later
\* requests have completed, so request_counter = MAX_REQUEST_COUNTER - 1.
BridgeInitWrap ==
    /\ godot_connection = Ws
    /\ pending_requests = DictSet(EmptyDict, ReqId(1), 1)
    /\ request_counter = MAX_REQUEST_COUNTER - 1
    /\ pc = [i \in Calls |-> IF i = 1 THEN "waiting" ELSE "idle"]
    /\ request_id = [i \in Calls |-> IF i = 1 THEN ReqId(1) ELSE NoId]
    /\ future_state = [i \in Calls |-> IF i = 1 THEN "pending" ELSE "none"]
    /\ future_result = [i \in Calls |-> NoResult]
    /\ timed_out = [i \in Calls |-> FALSE]
    /\ outcome = [i \in Calls |-> "none"]
    /\ retval = [i \in Calls |-> NoResult]

\* The bridge starts at process start or in the wrapped state.
Init == (BridgeInit \/ BridgeInitWrap) /\ GitInit /\ FwInit /\ HubInit /\ SessInit /\ SvcInit /\ HoInit /\ EpInit /\ LcInit

\* Every component as constructed.
FreshInit == BridgeInit /\ GitInit /\ FwInit /\ HubInit /\ SessInit /\ SvcInit /\ HoInit /\ EpInit /\ LcInit

\* The other components at construction, the cache at the cap.
AtCapInit == BridgeInit /\ GitInit /\ FwInit /\ HubInit /\ SessCapInit /\ SvcInit /\ HoInit /\ EpInit /\ LcInit

Next == BridgeNext

\* The bridge, from process start or from the wrapped state.
Spec == Init /\ [][Next]_vars

\* The event loop fires a due timer and resumes a task whose future is done.
BridgeFairness ==
    \A i \in Calls : WF_vars(TimeoutExpires(i)) /\ WF_vars(WaitForReturns(i))

\* The bridge with at most MaxFairCalls calls.
FairNext ==
    \/ SetGodotConnection
    \/ ClearGodotConnection
    \/ \E i \in 1..MaxFairCalls : SendToGodot(i)
    \/ \E i \in Calls : SendJsonReturns(i)
    \/ \E i \in Calls : SendJsonFails(i)
    \/ \E id \in ResponseIds, r \in Results : HandleGodotResponse(id, r)
    \/ \E i \in Calls : TimeoutExpires(i)
    \/ \E i \in Calls : WaitForReturns(i)

FairSpec == Init /\ [][FairNext]_vars /\ BridgeFairness

\* The repository-status debouncer.
GitSpec == FreshInit /\ [][GitNext]_vars

\* The filesystem watcher's handler.
FwSpec == FreshInit /\ [][FwNext]_vars

\* The connection hub: connections and broadcasts.
HubSpec == FreshInit /\ [][HubNext]_vars

\* The connection hub: connections and the cleanup loop.
ReaperSpec == FreshInit /\ [][ReaperNext]_vars

\* The session cache.
SessSpec == FreshInit /\ [][SessNext]_vars

\* The session cache at its cap.
SessCapSpec == AtCapInit /\ [][SessCapNext]_vars

\* The watcher services.
SvcSpec == FreshInit /\ [][SvcNext]_vars

\* The hand-off from the watcher threads into the event loop.
HandoffSpec == FreshInit /\ [][HoNext]_vars

\* The command flow: bridge and endpoint.
FlowSpec == FreshInit /\ [][FlowNext]_vars

\* The command bridge with task cancellation.
CancelSpec == FreshInit /\ [][CancelNext]_vars

\* The life cycle of the filesystem watcher.
LcSpec == FreshInit /\ [][LcNext]_vars

(***************************************************************************)
(* Properties of the command bridge                                        *)
(***************************************************************************)

\* Calls between their registration and their return.
InFlight == {i \in Calls : pc[i] \in {"sending", "waiting"}}

\* Calls in flight whose future is not done.
Unresolved == {i \in InFlight : future_state[i] = "pending"}

\* The calls whose future the dict holds.
Owners == {pending_requests[k] : k \in DOMAIN pending_requests}

\* The future of call i was cancelled by clear_godot_connection: the call was
\* registered with a future that was not done when the host disconnected.
CancelledByDisconnect(i) == future_state[i] = "cancelled" /\ ~timed_out[i]

\* C1: every call that was pending (registered, future not done) when
\* clear_godot_connection ran ends with the host-disconnected outcome, and the
\* dict is empty while no host is attached.
C1_DisconnectCancelsAll ==
    /\ \A i \in Calls :
         (pc[i] = "done" /\ CancelledByDisconnect(i)) => outcome[i] = "disconnected"
    /\ godot_connection = None => pending_requests = EmptyDict

\* C2: a send_to_godot call made while no host is attached ends at once with
\* "not connected"; it mints no id, creates no future and adds no entry.
C2_NotConnectedFailsFast ==
    [][\A i \in Calls :
         (pc[i] = "idle" /\ pc'[i] # "idle" /\ godot_connection = None)
           => /\ pc'[i] = "done"
              /\ outcome'[i] = "not_connected"
              /\ pending_requests' = pending_requests
              /\ request_counter' = request_counter
              /\ future_state'[i] = "none"]_vars

C2_Witness ==
    /\ outcome[1] = "not_connected"
    /\ outcome[2] = "not_connected"
    /\ pending_requests = EmptyDict

\* C3: a call awaiting its response always completes; unless it was answered
\* or the host disconnected, it completes with the timeout outcome and its
\* request id is not in the dict.
C3_TimeoutCompletes ==
    \A i \in Calls :
        (pc[i] = "waiting") ~>
            (/\ pc[i] = "done"
             /\ \/ future_state[i] = "result"
                \/ CancelledByDisconnect(i)
                \/ /\ outcome[i] = "timeout"
                   /\ request_id[i] \notin DOMAIN pending_requests)

C3_Witness ==
    \E i \in Calls :
        /\ pc[i] = "done"
        /\ outcome[i] = "timeout"
        /\ godot_connection = Ws
        /\ request_id[i] \notin DOMAIN pending_requests

\* C4: once a call has completed, the dict holds no entry for its future,
\* whatever its outcome.
C4_NoLeakedEntry ==
    \A i \in Calls : pc[i] = "done" => i \notin Owners

C4_Witness ==
    /\ \E i, j, k \in Calls :
         /\ outcome[i] = "result"
         /\ outcome[j] = "timeout"
         /\ outcome[k] \in {"disconnected", "send_failed"}
    /\ pending_requests = EmptyDict

\* C5 as stated: in every state the dict has as many entries as there are
\* calls awaiting a result, whether "awaiting" is read as in flight or as
\* having an unfulfilled future.
C5_SizeEqualsAwaiting ==
    \/ Cardinality(DOMAIN pending_requests) = Cardinality(InFlight)
    \/ Cardinality(DOMAIN pending_requests) = Cardinality(Unresolved)

\* C5 amended: every entry belongs to a call in flight, no two entries share
\* a future, so the dict never has more entries than there are calls in
\* flight, and a step of clear_godot_connection leaves the dict empty.
C5_SizeBounds ==
    /\ [](/\ Owners \subseteq InFlight
          /\ Cardinality(DOMAIN pending_requests) = Cardinality(Owners)
          /\ Cardinality(DOMAIN pending_requests) <= Cardinality(InFlight))
    /\ [][ClearGodotConnection => pending_requests' = EmptyDict]_vars

C5_Witness ==
    /\ Cardinality(Unresolved) = 1
    /\ Cardinality(DOMAIN pending_requests) = 2
    /\ Cardinality(InFlight) = 3

\* C6: send_to_godot never mints an id that is still pending for another
\* request: two calls in flight never share a request id.
C6_NoIdReuse ==
    \A i, j \in InFlight : i # j => request_id[i] # request_id[j]

C8_ResponseFulfilsOrDrops ==
    [][/\ \A i \in Calls :
            (future_state'[i] = "result" /\ future_state[i] # "result")
              => /\ future_state[i] = "pending"
                 /\ request_id[i] \in DOMAIN pending_requests
                 /\ pending_requests[request_id[i]] = i
                 /\ \E r \in Results : HandleGodotResponse(request_id[i], r)
       /\ (future_state' # future_state \/ future_result' # future_result)
            => \A id \in ResponseIds, r \in Results :
                 HandleGodotResponse(id, r) =>
                   IF /\ id \in DOMAIN pending_requests
                      /\ future_state[pending_requests[id]] = "pending"
                   THEN /\ future_state'[pending_requests[id]] = "result"
                        /\ future_result'[pending_requests[id]] = r
                        /\ \A j \in Calls \ {pending_requests[id]} :
                             /\ future_state'[j] = future_state[j]
                             /\ future_result'[j] = future_result[j]
                        /\ UNCHANGED <<godot_connection, pending_requests,
                                       request_counter, pc, request_id, timed_out,
                                       outcome, retval>>
                   ELSE UNCHANGED vars]_vars

C8_Witness ==
    \E i \in Calls :
        /\ pc[i] = "done"
        /\ outcome[i] = "timeout"
        /\ \E j \in InFlight : future_state[j] = "result" /\ j > i

\* C9: a future that is done never changes again, a completed call keeps its
\* outcome, a call returns a value only if its future holds that value, and a
\* call whose future holds a value returns it unless its send failed.
C9_SingleResolution ==
    [][\A i \in Calls :
         /\ future_state[i] \in {"result", "cancelled"}
              => /\ future_state'[i] = future_state[i]
                 /\ future_result'[i] = future_result[i]
         /\ pc[i] = "done" => (outcome'[i] = outcome[i] /\ retval'[i] = retval[i])
         /\ (pc[i] # "done" /\ outcome'[i] = "result")
              => (future_state[i] = "result" /\ retval'[i] = future_result[i])
         /\ (pc[i] # "done" /\ pc'[i] = "done" /\ future_state[i] = "result"
               /\ outcome'[i] # "send_failed")
              => (outcome'[i] = "result" /\ retval'[i] = future_result[i])]_vars

C9_Witness ==
    \E i \in Calls :
        /\ outcome[i] = "result"
        /\ retval[i] = "r1"
        /\ godot_connection = None
        /\ timed_out[i] = FALSE

\* C38: send_to_godot ends with the host-disconnected outcome only for a
\* future that clear_godot_connection cancelled.
C38_DisconnectOnlyOnClear ==
    [][\A i \in Calls :
         (outcome[i] = "none" /\ outcome'[i] = "disconnected") =>
            CancelledByDisconnect(i)]_vars

(***************************************************************************)
(* Properties of the repository-status debouncer                           *)
(***************************************************************************)

\* No settle check is scheduled, sleeping or running.
GitQuiescent == broadcast_task \in {"none", "done"}

\* C10: every burst gets exactly one settle callback: a settle fires only for
\* events that have had none and only after the quiet period, and once no
\* settle check is left, no event is still waiting for its status fetch.
C10_OneSettlePerBurst ==
    /\ ~git_bad_settle
    /\ (~git_stopped /\ GitQuiescent) => ~git_unsettled

\* C11: a settle (the step that starts the status fetch) happens exactly
\* DebounceTicks after the last event.
C11_SettleAtLastPlusQ ==
    [][(broadcast_task # "fetching" /\ broadcast_task' = "fetching")
         => git_now = last_change_time + DebounceTicks]_vars

\* C12: while the flag is set and the handler is not stopped, a settle check
\* is scheduled or sleeping.
C12_FlagHasOneCheck ==
    (pending_broadcast /\ ~git_stopped) => broadcast_task = "sleeping"

\* C13: once the handler is stopped no settle check is outstanding, the flag
\* is clear, the handler stays stopped, and no step starts a task or a status
\* fetch, whatever events arrive and however much time passes.
C13_NoSettleAfterStop ==
    /\ [](git_stopped => /\ broadcast_task \in {"none", "done", "cancelled"}
                         /\ ~pending_broadcast)
    /\ [][git_stopped => /\ git_stopped'
                         /\ broadcast_task' = broadcast_task
                         /\ pending_broadcast' = pending_broadcast
                         /\ git_unsettled' = git_unsettled]_vars

C13_Witness ==
    /\ git_stopped
    /\ broadcast_task = "cancelled"
    /\ git_unsettled
    /\ git_now > last_change_time + DebounceTicks

\* The status fetch of a settle returns a status for the broadcast.
StatusIsSent == broadcast_task = "fetching" /\ broadcast_task' = "delivering"

\* C32: the status a settle broadcasts was computed at or after the last
\* event of the burst.
C32_SettleSendsFreshStatus ==
    [][StatusIsSent => sent_status_time' >= settled_change_time]_vars

\* C35: while the handler is not stopped, an event that has had no status
\* fetch has a settle check ahead of it, sleeping or about to fetch.
C35_EventHasFetchAhead ==
    (git_unsettled /\ ~git_stopped) => broadcast_task \in {"sleeping", "fetching"}

(***************************************************************************)
(* Properties of the filesystem watcher                                    *)
(***************************************************************************)

\* C14: a burst of events under one root is settled once: no two paths whose
\* events were less than the quiet period apart are reindexed separately.
C14_OneSettlePerRoot == ~fw_split_burst

\* C19: the pending-change set never holds more than max_pending entries.
C19_PendingBounded == Len(pending_changes) <= MaxPending

C19_Witness ==
    /\ Len(pending_changes) = MaxPending
    /\ fw_evicted # ""
    /\ fw_last_settle # NoSettle

\* C20: the dict is ordered by last update, least recently updated first, with
\* timestamps that never decrease along it; a step that records a new path in
\* a full dict evicts exactly the least recently updated path and keeps the
\* new one.
C20_EvictsLeastRecentlyUpdated ==
    /\ []( /\ [i \in DOMAIN pending_changes |-> pending_changes[i][1]] = fw_update_order
           /\ \A i, j \in DOMAIN pending_changes :
                i < j => pending_changes[i][2] <= pending_changes[j][2])
    /\ [][\A f \in FwFiles :
            (/\ f \notin Keys(pending_changes)
             /\ f \in Keys(pending_changes')
             /\ Len(pending_changes) = MaxPending)
              => /\ Keys(pending_changes') =
                      (Keys(pending_changes) \ {Head(fw_update_order)}) \cup {f}
                 /\ Head(fw_update_order) # f
                 /\ pending_changes'[Len(pending_changes')] = <<f, fw_now>>]_vars

C20_Witness ==
    /\ Len(pending_changes) = MaxPending
    /\ fw_evicted # ""
    /\ fw_evicted \notin Keys(pending_changes)
    /\ pending_changes[1][1] \in fw_refreshed
    /\ pending_changes[1][2] > 0
    /\ fw_last_settle = NoSettle

(***************************************************************************)
(* Properties of the connection hub                                        *)
(***************************************************************************)

\* The step is the start of a broadcast with at least one target.
BroadcastBegins == bc_result # "running" /\ bc_result' = "running"

\* The step is the send_message of the broadcast for connection c.
Attempt(c) == bc_status[c] = "queued" /\ bc_status'[c] \in {"sent", "failed"}

\* C15: broadcast delivers to every registered connection independently: a
\* send that fails removes that connection from the hub and touches no other
\* connection's delivery or registration, and broadcast returns once every
\* target has been sent to or has failed.
C15_FailureIsolated ==
    /\ [](\A c \in Conns : bc_status[c] = "failed" =>
              /\ c \notin active_connections
              /\ c \notin DOMAIN connection_last_seen)
    /\ [](bc_result = "returned" =>
              \A c \in bc_targets : bc_status[c] \in {"sent", "failed"})
    /\ [][\A c \in Conns :
            (bc_status[c] # "failed" /\ bc_status'[c] = "failed") =>
                \A d \in Conns \ {c} :
                    /\ bc_status'[d] = bc_status[d]
                    /\ d \in active_connections <=> d \in active_connections'
                    /\ d \in DOMAIN connection_last_seen
                         <=> d \in DOMAIN connection_last_seen']_vars

C15_Witness ==
    /\ bc_result = "returned"
    /\ bc_targets = Conns
    /\ \E c \in Conns :
          /\ bc_status[c] = "failed"
          /\ conn_pc[c] = "closing"
          /\ active_connections = Conns \ {c}
          /\ \A d \in Conns \ {c} : bc_status[d] = "sent"

\* C16: the targets of a broadcast are the connections registered when it
\* begins and do not change while it runs; a delivery is attempted only for a
\* target, once, and changes no other connection's delivery; a connection that
\* registers or closes during the broadcast changes no delivery at all.
C16_TargetsFixedAtBegin ==
    /\ [][BroadcastBegins => bc_targets' = active_connections]_vars
    /\ [][bc_result = "running" => bc_targets' = bc_targets]_vars
    /\ [][bc_result = "running" =>
            \A c \in Conns :
                bc_status'[c] # bc_status[c] =>
                    /\ c \in bc_targets
                    /\ Attempt(c)
                    /\ \A d \in Conns \ {c} : bc_status'[d] = bc_status[d]]_vars
    /\ [][conn_pc' # conn_pc => bc_status' = bc_status]_vars

C16_Witness ==
    /\ bc_result = "returned"
    /\ \E c \in Conns :
          /\ c \in active_connections \ bc_targets
          /\ bc_status[c] = "none"
    /\ \E d \in bc_targets :
          /\ bc_status[d] = "failed"
          /\ conn_pc[d] = "ended"
    /\ \E e \in bc_targets : bc_status[e] = "sent"

\* The step is a turn of the cleanup loop of task t that goes back to sleep.
CycleRuns(t) ==
    /\ task_state[t] = "sleeping"
    /\ task_state'[t] = "sleeping"
    /\ task_wake'[t] # task_wake[t]

\* Seconds since the liveness timestamp of a registered connection.
IdleSeconds(c) == (hub_now - connection_last_seen[c]) * HubTickSeconds

\* C17: every cycle of the cleanup loop removes exactly the registered
\* connections idle for more than 300 s; a sleeping loop wakes within one
\* interval; so while a loop that has completed a cycle is asleep, no
\* registered connection has been idle for more than 300 s plus one interval.
C17_ReapsExactlyStale ==
    /\ [](active_connections \subseteq DOMAIN connection_last_seen)
    /\ [][\A t \in Tasks :
            CycleRuns(t) =>
                active_connections' =
                    {c \in active_connections : IdleSeconds(c) <= ConnectionTimeoutSeconds}]_vars
    /\ [](\A t \in Tasks :
            task_state[t] = "sleeping" =>
                /\ hub_now <= task_wake[t]
                /\ (task_wake[t] - hub_now) * HubTickSeconds <= CleanupIntervalSeconds)
    /\ []((\E t \in task_cycled : task_state[t] = "sleeping") =>
            \A c \in active_connections :
                IdleSeconds(c) <= ConnectionTimeoutSeconds + CleanupIntervalSeconds)

C17_Witness ==
    /\ \E t \in task_cycled :
          /\ task_state[t] = "sleeping"
          /\ (task_wake[t] - hub_now) * HubTickSeconds = CleanupIntervalSeconds
    /\ reaped # {}
    /\ \E d \in active_connections : IdleSeconds(d) = ConnectionTimeoutSeconds

\* C18: while stop is requested (_shutdown is set) the cleanup loop removes no
\* connection, and the task the manager holds is not left asleep.
C18_NoReapAfterStop ==
    /\ []((hub_shutdown /\ cleanup_task # NoTask) =>
              task_state[cleanup_task] # "sleeping")
    /\ [][hub_shutdown => reaped' = reaped]_vars

C18_Witness ==
    /\ hub_shutdown
    /\ \E t \in task_cycled : task_state[t] = "done"
    /\ \E c \in active_connections :
          IdleSeconds(c) > ConnectionTimeoutSeconds + CleanupIntervalSeconds

\* The cleanup loops that have been created and have not ended.
AliveLoops == {t \in Tasks : task_state[t] \in {"sleeping", "cancelling"}}

\* C39: at most one cleanup loop is alive, and the task the manager holds is
\* that loop.
C39_OneReferencedLoop ==
    /\ Cardinality(AliveLoops) <= 1
    /\ \A t \in AliveLoops : cleanup_task = t

\* C37: the connections with an entry in the last-seen map are the
\* registered connections.
C37_LastSeenIffRegistered == DOMAIN connection_last_seen = active_connections

(***************************************************************************)
(* Properties of the session cache                                         *)
(***************************************************************************)

\* The step is a call of kind k for client c.
SessCall(k, c) ==
    /\ sess_calls' = sess_calls + 1
    /\ sess_op'[1] = k
    /\ sess_op'[2] = c

\* The entry of client c, which has a session.
EntryOf(d, c) == d[CHOOSE i \in DOMAIN d : d[i][1] = c]

\* Seconds since the session of client c was stored.
SessionAge(c) == (sess_now - EntryOf(sessions, c)[3]) * SessTickSeconds

\* C21: get_cached_status(c) returns the snapshot of c's session when there
\* is one that is at most SESSION_TTL old, and changes nothing; otherwise it
\* returns nothing and leaves the cache without a session of c, every other
\* session as it was. The snapshot of a session is the one the last
\* update_cache for the client stored: update_cache(c, s) stores s with the
\* current time, and no other call changes an entry that stays.
C21_GetIffFresh ==
    /\ [][\A c \in Clients :
            SessCall("get", c) =>
                IF c \in Keys(sessions) /\ SessionAge(c) <= SESSION_TTL
                THEN /\ get_result' = EntryOf(sessions, c)[2]
                     /\ sessions' = sessions
                ELSE /\ get_result' = None
                     /\ sessions' = WithoutKey(sessions, c)]_vars
    /\ [][\A c \in Clients :
            SessCall("update", c) =>
                /\ c \in Keys(sessions')
                /\ EntryOf(sessions', c) = <<c, sess_op'[3], sess_now>>]_vars
    /\ [][\A c \in Keys(sessions) \cap Keys(sessions') :
            EntryOf(sessions', c) # EntryOf(sessions, c) => SessCall("update", c)]_vars

C21_Witness ==
    /\ sess_op[1] = "get"
    /\ sess_op[2] \in Keys(sessions)
    /\ SessionAge(sess_op[2]) = SESSION_TTL
    /\ get_result = EntryOf(sessions, sess_op[2])[2]
    /\ get_result = "s2"
    /\ Len(sessions) = 2

\* C22: the number of sessions never exceeds MAX_SESSIONS.
C22_SizeWithinCap == Len(sessions) <= MaxSessions

C22_Witness ==
    /\ sess_op[1] = "update"
    /\ sess_evicted # {}
    /\ sess_op[2] \notin OpClients
    /\ Len(sessions) < MaxSessions

\* The clients whose session is older than SESSION_TTL.
ExpiredClients == {c \in Keys(sessions) : SessionAge(c) > SESSION_TTL}

\* C23: update_cache below the cap removes nothing; at the cap it removes the
\* expired sessions, and evicts only if none was expired: then it evicts
\* max(1, size div 10) sessions, each at least as old as every session kept,
\* before it stores the new one.
C23_PurgeThenEvictOldest ==
    [][\A c \in Clients :
         SessCall("update", c) =>
            /\ sess_purged' = IF Len(sessions) >= MaxSessions THEN ExpiredClients ELSE {}
            /\ IF Len(sessions) >= MaxSessions /\ ExpiredClients = {}
               THEN /\ Cardinality(sess_evicted') * EvictDivisor <= Len(sessions)
                         \/ Cardinality(sess_evicted') = 1
                    /\ (Cardinality(sess_evicted') + 1) * EvictDivisor > Len(sessions)
                    /\ Cardinality(sess_evicted') >= 1
                    /\ \A e \in sess_evicted', k \in Keys(sessions) \ sess_evicted' :
                          EntryOf(sessions, e)[3] <= EntryOf(sessions, k)[3]
               ELSE sess_evicted' = {}
            /\ sess_evicted' \subseteq Keys(sessions)
            /\ Keys(sessions') = ((Keys(sessions) \ sess_purged') \ sess_evicted') \cup {c}]_vars

C23_Witness ==
    /\ sess_op[1] = "update"
    /\ Cardinality(sess_evicted) >= 2
    /\ sess_purged = {}
    /\ \E k \in Keys(sessions) \ {sess_op[2]} : EntryOf(sessions, k)[3] = 0

\* C40: update_cache for a client that has a session removes no session of
\* another client that is at most SESSION_TTL old.
C40_OverwriteKeepsOthers ==
    [][\A c \in Clients :
         (SessCall("update", c) /\ c \in Keys(sessions)) =>
            \A d \in Keys(sessions) \ {c} :
               SessionAge(d) <= SESSION_TTL => d \in Keys(sessions')]_vars

(***************************************************************************)
(* Properties of the watcher services                                      *)
(***************************************************************************)

\* The step is a call of kind k on watcher w.
SvcCall(w, k) ==
    /\ svc_calls' = svc_calls + 1
    /\ svc_op'[1] = w
    /\ svc_op'[2] = k

\* The observers of watcher w whose thread is alive.
LiveObservers(w) == {o \in Observers : svc[w].threads[o] \in {"running", "stopping"}}

\* C24: stop_watching on a watcher that is not watching raises nothing, makes
\* no join call and leaves the watcher as it was, not watching.
C24_StopIdempotent ==
    [][\A w \in Watchers :
         (SvcCall(w, "stop") /\ ~svc[w].watching) =>
            /\ ~svc_raised'
            /\ svc_joins' = 0
            /\ svc'[w] = svc[w]
            /\ ~svc'[w].watching]_vars

C24_Witness ==
    /\ svc_op = <<"file", "stop", None>>
    /\ svc_joins = 0
    /\ ~svc_raised
    /\ ~svc["file"].watching
    /\ \E o \in Observers : svc["file"].threads[o] = "dead"
    /\ svc_calls = MaxSvcCalls

\* C25: start_watching on a root that does not exist, or for the git watcher
\* on a root without .git, raises; the watcher then does not report watching
\* and the call has created and started no observer.
C25_RejectsBadRoot ==
    [][\A w \in Watchers :
         (/\ SvcCall(w, "start")
          /\ \/ svc_op'[3] = "missing"
             \/ w = "git" /\ svc_op'[3] = "dir") =>
            /\ svc_raised'
            /\ ~svc'[w].watching
            /\ \A o \in Observers :
                  /\ svc'[w].threads[o] = "running" => svc[w].threads[o] = "running"
                  /\ svc[w].threads[o] = "unborn" => svc'[w].threads[o] = "unborn"]_vars

C25_Witness ==
    /\ svc_op = <<"git", "start", "dir">>
    /\ svc_raised
    /\ ~svc["git"].watching
    /\ svc["file"].watching

\* C26: a start_watching call that raises leaves the watcher as it was: the
\* watching flag, the watched path, the observer it holds and every observer
\* thread.
C26_FailedStartLeavesNoTrace ==
    [][\A w \in Watchers :
         (SvcCall(w, "start") /\ svc_raised') =>
            /\ svc'[w].watching = svc[w].watching
            /\ svc'[w].watched_path = svc[w].watched_path
            /\ svc'[w].observer = svc[w].observer
            /\ \A o \in Observers :
                  svc'[w].threads[o] # svc[w].threads[o] =>
                      svc[w].threads[o] = "unborn" /\ svc'[w].threads[o] \in {"new", "scheduled"}]_vars

\* C27: a watcher has at most one observer thread alive.
C27_OneObserverThread == \A w \in Watchers : Cardinality(LiveObservers(w)) <= 1

(***************************************************************************)
(* Properties of the hand-off into the event loop                          *)
(***************************************************************************)

\* C28: no change callback raises into its worker thread, whether it comes
\* before the loop and callback are set or after the loop has stopped or been
\* closed.
C28_HandoffNeverRaises ==
    /\ \A t \in HoThreads : ho_pc[t] # "raised"
    /\ \A w \in Watchers : ho_result[w] # "raised"

\* C29: no thread is at its scheduling call, at a reindex or at a broadcast
\* while it holds the lock of its handler.
C29_NoSchedulingUnderLock ==
    \A t \in HoThreads :
        ho_pc[t] \in {"scheduling", "reindexing", "broadcasting"} =>
            ho_lock[HandlerOf(t)] = "free"
               \/ (t \in {"git_observer", "fw_observer"} /\ ho_lock[HandlerOf(t)] # "observer")
               \/ (t = "git_loop" /\ ho_lock[HandlerOf(t)] # "loop")
               \/ (t = "fw_processor" /\ ho_lock[HandlerOf(t)] # "processor")

(***************************************************************************)
(* Properties of the command flow                                          *)
(***************************************************************************)

\* C30: when the endpoint receives a message of the host that carries the
\* request_id of a send whose future is pending, the future gets its result.
C30_ResponseReachesBridge ==
    [][\A i \in Calls :
         (/\ ep_last' # ep_last
          /\ ep_last'[1] = HostConn
          /\ ep_last'[3] = request_id[i]
          /\ pc[i] = "waiting"
          /\ future_state[i] = "pending"
          /\ request_id[i] \in DOMAIN pending_requests
          /\ pending_requests[request_id[i]] = i) =>
            future_state'[i] = "result"]_vars

(***************************************************************************)
(* Properties of the life cycle of the filesystem watcher                  *)
(***************************************************************************)

\* A file is reindexed in this step.
Reindexes == lc_reindexed' = lc_reindexed + 1

\* C31: while the watcher started through its route is watching and a
\* connection is registered, every reindex of a settled change hands a
\* broadcast of the change to the event loop.
C31_ReindexIsBroadcast ==
    [][(Reindexes /\ lc_watching /\ active_connections # {}) =>
          lc_queued' = lc_queued + 1]_vars

\* The threads the watcher owns that are alive.
LcThreadsAlive ==
    (IF lc_processor # "exited" THEN 1 ELSE 0)
    + (IF lc_observer \in {"running", "stopping"} THEN 1 ELSE 0)
    + lc_orphans

\* C33: when FileWatcherService.stop returns, no thread the watcher owns is
\* alive, whatever the state it was called in.
C33_StopEndsThreads ==
    [][(lc_calls' = lc_calls + 1 /\ lc_op' = "stop") => (LcThreadsAlive' = 0)]_vars

\* C34: after stop_watching has returned, and until the next call, no file
\* is reindexed and no broadcast of the watcher is made.
C34_QuietAfterStop ==
    [][(lc_op \in {"stop_watching", "stop"}) =>
          (lc_reindexed' = lc_reindexed /\ lc_delivered' = lc_delivered)]_vars

\* C36: while the service reports watching, the processor thread of its
\* handler is alive and the handler runs.
C36_WatchingHasProcessor ==
    lc_watching => (lc_running /\ lc_processor # "exited")

====
